---------------------------- MODULE Spec2Model ----------------------------
(***************************************************************************)
(* A model of the bulk upload and job pipeline of spb_curate:              *)
(*   - Job.wait_until_complete        (curate/api/job.py)                   *)
(*   - Image.__upload_asset            (curate/api/curate.py)               *)
(*   - Image.__upload_local_images     (curate/api/curate.py)               *)
(*   - Job._upload_params, Job.create and the bulk submissions              *)
(*     Annotation.create_bulk, Image.create_bulk, Image.delete_bulk.        *)
(* The remote service, the object storage and the scheduler of the event   *)
(* loop are the environment: their answers and their interleavings are     *)
(* chosen nondeterministically.                                            *)
(***************************************************************************)
EXTENDS Integers, Sequences, FiniteSets, TLC

VARIABLES
    default_timeout,  \* the package setting spb_curate.timeout
    job,              \* the Job object held by the caller (its status)
    wait,             \* the activation of Job.wait_until_complete
    tasks,            \* the activations of Image.__upload_asset, by image index
    limits,           \* spb_curate.bulk_upload_bytes_max and bulk_upload_object_max
    images,           \* the local images of the call, each with its source
    bulk,             \* the activation of the bulk submission (create_bulk, delete_bulk)
    up,               \* the activation of Image.__upload_local_images
    net,              \* the requests sent one after another, with their answers
    puts,             \* the asset PUT attempts made: <<image, upload_url>>
    issued,           \* the number of upload targets the service has issued
    http,             \* the activation of a resource operation and the transport's log
    obj,              \* a value under materialization and what became of it
    client            \* spb_curate.default_http_client and the threads that build requestors

waitVars == <<default_timeout, job, wait>>

bulkVars == <<limits, images, bulk, up, net, puts, issued>>

otherVars == <<http, obj, client>>

vars == <<default_timeout, job, wait, tasks, limits, images, bulk, up, net, puts, issued,
          http, obj, client>>

----------------------------------------------------------------------------
(* Bounds of the model. *)

\* Largest timeout argument (seconds) a caller passes in the model.
MaxTimeout == 5

\* Most negative timeout argument a caller passes in the model.
MinTimeout == 2

----------------------------------------------------------------------------
(* Values shared by the operations. *)

\* Python's None for an optional integer argument.
None == [some |-> FALSE, v |-> 0]

Some(n) == [some |-> TRUE, v |-> n]

Min(a, b) == IF a < b THEN a ELSE b

Max(a, b) == IF a < b THEN b ELSE a

\* The statuses the polling loop treats as final, job.py line 367.
Terminal == {"FAILED", "COMPLETE"}

\* The statuses the service reports for a job.
Statuses == {"RUNNING"} \cup Terminal

----------------------------------------------------------------------------
(* The state of a bulk submission before any is called. *)

NoUpload ==
    [pc |-> "none", exc |-> "none", i |-> 0, last_i |-> 0,
     total_transfer_size |-> 0, file_sizes |-> <<>>]

NoBulk ==
    [pc |-> "none", exc |-> "none", op |-> "none", asynchronous |-> TRUE,
     uploaded_param |-> 0]

\* spb_curate.bulk_upload_bytes_max = 256000000 and bulk_upload_object_max =
\* 100, sizes counted in units of 1,000,000 bytes.
PackageLimits == [bulk_upload_bytes_max |-> 256, bulk_upload_object_max |-> 100]

\* No resource operation and no materialization is under way.
NoHttp == [pc |-> "none"]

NoObj == [pc |-> "none"]

\* No thread builds a requestor.
NoClient == [pc |-> "none"]

NoOtherCall == http = NoHttp /\ obj = NoObj /\ client = NoClient

NoBulkCall ==
    /\ limits = PackageLimits
    /\ images = <<>>
    /\ bulk = NoBulk
    /\ up = NoUpload
    /\ net = <<>>
    /\ puts = {}
    /\ issued = 0

----------------------------------------------------------------------------
(* Job.wait_until_complete, job.py lines 349-378. *)

\* spb_curate.timeout as the package sets it.
PackageTimeout == 300

\* frequency = 2  # seconds
frequency == 2

\* if timeout is None: timeout = default_timeout
ResolveTimeout(arg, dflt) == IF arg.some THEN arg.v ELSE dflt

\* wait_seconds = min(timeout, frequency)
WaitSeconds(t) == Min(t, frequency)

DecrementTimeoutByOne(t) == t - 1

\* timeout -= frequency
DecrementTimeout(t) == t - frequency

FailedIsNotTerminal(s) == s = "COMPLETE"

\* if self.status in ["FAILED", "COMPLETE"]
IsTerminal(s) == s \in Terminal

BreakRaises == "raised"

\* if wait_seconds <= 0: break -- the loop is left and the method returns None.
BudgetBreak == "returned"

NoJob == [exists |-> FALSE, status |-> "NONE", job_type |-> "NONE", param_id |-> 0]

NoWait ==
    [pc |-> "none", timeout |-> 0, wait_seconds |-> 0, T |-> 0,
     slept |-> 0, sleeps |-> 0, refreshes |-> 0, last |-> "none",
     delivered |-> "NONE", seen_terminal |-> FALSE, exc |-> "none",
     entry |-> "NONE"]

\* The entry of wait_until_complete(timeout=arg): lines 359-364. entry keeps
\* the status the job has then.
WaitEnter(arg, status) ==
    LET t == ResolveTimeout(arg, default_timeout)
    IN  wait' = [NoWait EXCEPT !.pc = "loop", !.timeout = t, !.T = t,
                               !.entry = status]

\* One status check: lines 366-375. Either break (terminal status, or no
\* budget left), or take the budget and go to sleep.
WaitCheck ==
    /\ wait.pc = "loop"
    /\ IF IsTerminal(job.status)
       THEN wait' = [wait EXCEPT !.pc = "returned", !.seen_terminal = TRUE]
       ELSE LET ws == WaitSeconds(wait.timeout)
            IN  IF ws <= 0
                THEN wait' = [wait EXCEPT !.pc = BudgetBreak, !.wait_seconds = ws]
                ELSE wait' = [wait EXCEPT !.pc = "sleep",
                                          !.wait_seconds = ws,
                                          !.timeout = DecrementTimeout(@)]
    /\ UNCHANGED <<default_timeout, otherVars, job, tasks, bulkVars>>

\* time.sleep(wait_seconds): line 376.
WaitSleep ==
    /\ wait.pc = "sleep"
    /\ wait' = [wait EXCEPT !.pc = "refresh",
                            !.slept = @ + wait.wait_seconds,
                            !.sleeps = @ + 1,
                            !.last = "sleep"]
    /\ UNCHANGED <<default_timeout, otherVars, job, tasks, bulkVars>>

\* self.refresh(): line 378. The service delivers any status, or the request
\* fails and the error leaves wait_until_complete.
WaitRefresh ==
    /\ wait.pc = "refresh"
    /\ \/ \E s \in Statuses :
            /\ job' = [job EXCEPT !.status = s]
            /\ wait' = [wait EXCEPT !.pc = "loop",
                                    !.refreshes = @ + 1,
                                    !.last = "refresh",
                                    !.delivered = s]
       \/ /\ wait' = [wait EXCEPT !.pc = "raised", !.exc = "APIError",
                                  !.refreshes = @ + 1]
          /\ UNCHANGED job
    /\ UNCHANGED <<default_timeout, otherVars, tasks, bulkVars>>

----------------------------------------------------------------------------
(* The specification of a caller that holds a job and waits for it. *)

TimeoutArgs == {Some(n) : n \in (0 - MinTimeout)..MaxTimeout} \cup {None}

InitWait ==
    /\ default_timeout \in {PackageTimeout, MaxTimeout}
    /\ job \in {[NoJob EXCEPT !.exists = TRUE, !.status = s] : s \in Statuses}
    /\ wait = NoWait
    /\ tasks = <<>>
    /\ NoBulkCall
    /\ NoOtherCall

\* job.wait_until_complete(timeout=arg)
CallWait ==
    /\ wait.pc = "none"
    /\ \E arg \in TimeoutArgs : WaitEnter(arg, job.status)
    /\ UNCHANGED <<default_timeout, otherVars, job, tasks, bulkVars>>

NextWait == CallWait \/ WaitCheck \/ WaitSleep \/ WaitRefresh

SpecWait == InitWait /\ [][NextWait]_vars

\* The caller is a sequential program: a sleep ends, a request is answered or
\* fails, and the next statement runs.
LiveSpecWait == SpecWait /\ WF_vars(NextWait)

----------------------------------------------------------------------------
(* Image.__upload_asset, curate.py lines 1659-1698, with                   *)
(* http_client.calculate_backoff and the classes of spb_curate.error.      *)

\* BACKOFF_FACTOR = 1
BACKOFF_FACTOR == 1

\* MAX_RETRY_COUNT = 2
MAX_RETRY_COUNT == 2

\* STATUS_FORCE_LIST = (500, 502, 503, 504) and the set made of it.
STATUS_FORCE_SET == {500, 502, 503, 504}

calculate_backoff_next(attempt, factor) == factor * (2 ^ attempt)

\* return factor * (2 ** (attempt - 1))
calculate_backoff(attempt, factor) == factor * (2 ^ (attempt - 1))

\* raise error.RetryableError(...), lines 1678 and 1695. The class is named
\* there; error.py as held under src/ does not carry its declaration.
RetryableError == "RetryableError"

\* raise error.SuperbAIError(...), line 1685; the class of error.py line 6.
SuperbAIError == "SuperbAIError"

\* What one PUT attempt meets: an HTTP status, a transport error of aiohttp
\* (aiohttp.ClientError), or the asset file that cannot be read.
Answer(status) == [kind |-> "status", status |-> status]

ClientError == [kind |-> "ClientError", status |-> 0]

ReadError == [kind |-> "OSError", status |-> 0]

\* An activation of __upload_asset(key, source, url) before its first
\* statement; `image` is the index of the image the source belongs to.
\* history, slept and puts record what the activation has met and done.
NewTask(image, source, url) ==
    [pc |-> "put", attempt |-> 0, exc |-> "none", sleep |-> 0,
     image |-> image, source |-> source, url |-> url,
     puts |-> 0, history |-> <<>>, slept |-> <<>>]

\* ImageSourceLocal.get_asset (lines 2428-2446): the bytes held, the bytes
\* read from the path, or an error.
GetAssetError(source, o) ==
    IF source = "empty" THEN "ValidationError"
    ELSE IF source = "path" /\ o.kind = "OSError" THEN "OSError"
    ELSE "none"

\* Every answer but 200 takes a unit of the retry budget.
EveryFailureIsRetryable(o) == ~(o.kind = "status" /\ o.status = 200)

\* The failures that take one unit of the retry budget: a status of
\* STATUS_FORCE_SET (line 1671) or an aiohttp.ClientError (line 1690).
IsRetryable(o) ==
    \/ o.kind = "status" /\ o.status \in STATUS_FORCE_SET
    \/ o.kind = "ClientError"

\* if attempt < http_client.MAX_RETRY_COUNT (lines 1673 and 1692)
MayRetry(attempt) == attempt < MAX_RETRY_COUNT

\* One turn of the loop `while attempt < MAX_RETRY_COUNT` from the PUT to the
\* handling of its answer (lines 1663-1698).
UploadAttempt(t, o) ==
    IF GetAssetError(t.source, o) # "none"
    THEN [t EXCEPT !.pc = "raised", !.exc = GetAssetError(t.source, o)]
    ELSE LET sent == [t EXCEPT !.puts = @ + 1, !.history = Append(@, o)]
         IN  IF o.kind = "status" /\ o.status = 200
             THEN [sent EXCEPT !.pc = "returned"]
             ELSE IF IsRetryable(o)
             THEN LET a == t.attempt + 1
                  IN  IF MayRetry(a)
                      THEN [sent EXCEPT !.attempt = a, !.pc = "sleep",
                                !.sleep = calculate_backoff(a, BACKOFF_FACTOR)]
                      ELSE [sent EXCEPT !.attempt = a, !.pc = "raised",
                                !.exc = RetryableError]
             ELSE [sent EXCEPT !.pc = "raised",
                               !.exc = SuperbAIError]

\* await asyncio.sleep(backoff) ends and the loop condition is tested again
\* (lines 1674, 1693 and 1663); leaving the loop returns None.
UploadSleep(t) ==
    [t EXCEPT !.pc = IF t.attempt < MAX_RETRY_COUNT THEN "put" ELSE "returned",
              !.sleep = 0, !.slept = Append(@, t.sleep)]

\* The outcomes a PUT attempt of a source can meet.
OutcomesFor(source, outcomes) ==
    {o \in outcomes : o.kind = "OSError" => source = "path"}

TaskPut(i, outcomes) ==
    /\ i \in DOMAIN tasks
    /\ tasks[i].pc = "put"
    /\ \E o \in OutcomesFor(tasks[i].source, outcomes) :
          tasks' = [tasks EXCEPT ![i] = UploadAttempt(@, o)]

TaskSleep(i) ==
    /\ i \in DOMAIN tasks
    /\ tasks[i].pc = "sleep"
    /\ tasks' = [tasks EXCEPT ![i] = UploadSleep(@)]

----------------------------------------------------------------------------
(* The specification of one call of __upload_asset. *)

AssetStatuses == {200, 201, 400, 403, 404} \cup STATUS_FORCE_SET

AssetOutcomes == {Answer(c) : c \in AssetStatuses} \cup {ClientError, ReadError}

SourceKinds == {"bytes", "path", "empty"}

InitAsset ==
    /\ default_timeout = PackageTimeout
    /\ job = NoJob
    /\ wait = NoWait
    /\ \E k \in SourceKinds : tasks = <<NewTask(1, k, 1)>>
    /\ NoBulkCall
    /\ NoOtherCall

AssetPut == TaskPut(1, AssetOutcomes) /\ UNCHANGED <<waitVars, otherVars, bulkVars>>

AssetSleep == TaskSleep(1) /\ UNCHANGED <<waitVars, otherVars, bulkVars>>

NextAsset == AssetPut \/ AssetSleep

SpecAsset == InitAsset /\ [][NextAsset]_vars

----------------------------------------------------------------------------
(* Image.__upload_local_images, curate.py lines 1700-1780. *)

\* Most local images in one call of the model.
MaxImages == 3

\* settings.UPLOAD_IMAGE_FILE_BYTES_MAX, the "file size limit of 20MB" of
\* line 1730, in units of 1,000,000 bytes.
UPLOAD_IMAGE_FILE_BYTES_MAX == 20

\* No activation of __upload_asset for an image.
NoTask == [NewTask(0, "none", 0) EXCEPT !.pc = "none"]

\* One exchange with the service or the storage, as the sequential part of
\* a submission sends them.
Event(kind) ==
    [kind |-> kind, file_sizes |-> <<>>, first |-> 0, results |-> <<>>,
     id |-> 0, status |-> 0, job_type |-> "none", data |-> <<>>]

\* The condition of lines 1736-1740 that ends a batch with the asset just
\* added: the byte limit is reached, the object limit is reached, or the
\* asset is the last one.
FlushNow(total, count, i, N) ==
    \/ total >= limits.bulk_upload_bytes_max
    \/ count = limits.bulk_upload_object_max
    \/ i = N - 1

\* if asset_size > settings.UPLOAD_IMAGE_FILE_BYTES_MAX (line 1727)
TooLarge(asset_size) == asset_size > UPLOAD_IMAGE_FILE_BYTES_MAX

ImageOfTargetInList(last_i, asset_i) == asset_i

\* images[last_i + asset_i] (lines 1757 and 1765): the index, counted from 0,
\* of the image that gets the asset_i-th target of the answer.
ImageOfTarget(last_i, asset_i) == last_i + asset_i

\* The answers of the service to a request for n upload targets: a list of
\* targets, as many as asked for, one fewer or one more.
Supplied(n) == {k \in {n - 1, n, n + 1} : k >= 0}

\* One turn of `while i < N` up to the flush test (lines 1724-1740), then
\* either the flush is due or i += 1 (line 1778); with i = N the method
\* returns the images (line 1780) and create_bulk goes on (lines 1850-1854).
UploadLoopStep ==
    /\ bulk.pc = "local_images"
    /\ up.pc = "loop"
    /\ IF up.i < Len(images)
       THEN LET asset_size == images[up.i + 1].size
                total == up.total_transfer_size + asset_size
                sizes == Append(up.file_sizes, asset_size)
            IN  IF TooLarge(asset_size)
                THEN /\ up' = [up EXCEPT !.pc = "raised", !.exc = "ValidationError"]
                     /\ bulk' = [bulk EXCEPT !.pc = "raised", !.exc = "ValidationError"]
                ELSE /\ up' = [up EXCEPT
                                 !.total_transfer_size = total,
                                 !.file_sizes = sizes,
                                 !.pc = IF FlushNow(total, Len(sizes), up.i, Len(images))
                                        THEN "request" ELSE "loop",
                                 !.i = IF FlushNow(total, Len(sizes), up.i, Len(images))
                                       THEN @ ELSE @ + 1]
                     /\ UNCHANGED bulk
       ELSE /\ up' = [up EXCEPT !.pc = "returned"]
            /\ bulk' = [bulk EXCEPT !.pc = "upload_params"]
    /\ UNCHANGED <<waitVars, otherVars, tasks, limits, images, net, puts, issued>>

\* The request for the upload targets of a batch and the loop over its
\* answer (lines 1742-1767): the asset_i-th target goes to the image
\* ImageOfTarget(last_i, asset_i), whose source takes the target's id at once
\* and whose upload is set up with the target's url. A target beyond the end
\* of the list raises IndexError. The request itself may fail.
RequestTargets ==
    /\ bulk.pc = "local_images"
    /\ up.pc = "request"
    /\ \/ \E k \in Supplied(Len(up.file_sizes)) :
            LET results == [j \in 1..k |-> issued + j]
                \* the targets handled before an index leaves the list
                handled == {j \in 1..k :
                              \A h \in 1..j :
                                 ImageOfTarget(up.last_i, h - 1) < Len(images)}
                \* the last target handled for image im (0: none)
                TargetOf(im) ==
                    LET js == {j \in handled :
                                  ImageOfTarget(up.last_i, j - 1) + 1 = im}
                    IN  IF js = {} THEN 0
                        ELSE CHOOSE j \in js : \A h \in js : h <= j
            IN  /\ net' = Append(net, [Event("presign") EXCEPT
                                          !.file_sizes = up.file_sizes,
                                          !.first = up.last_i,
                                          !.results = results])
                /\ issued' = issued + k
                /\ images' = [im \in 1..Len(images) |->
                                IF TargetOf(im) = 0 THEN images[im]
                                ELSE [images[im] EXCEPT
                                        !.asset_id = results[TargetOf(im)]]]
                /\ IF handled = 1..k
                   THEN /\ tasks' = [im \in 1..Len(images) |->
                                       IF TargetOf(im) = 0 THEN tasks[im]
                                       ELSE NewTask(im, images[im].source,
                                                    results[TargetOf(im)])]
                        /\ up' = [up EXCEPT !.pc = "gather"]
                        /\ UNCHANGED bulk
                   ELSE /\ up' = [up EXCEPT !.pc = "raised", !.exc = "IndexError"]
                        /\ bulk' = [bulk EXCEPT !.pc = "raised", !.exc = "IndexError"]
                        /\ UNCHANGED tasks
       \/ /\ net' = Append(net, [Event("presign_failed") EXCEPT
                                    !.file_sizes = up.file_sizes,
                                    !.first = up.last_i])
          /\ up' = [up EXCEPT !.pc = "raised", !.exc = "APIError"]
          /\ bulk' = [bulk EXCEPT !.pc = "raised", !.exc = "APIError"]
          /\ UNCHANGED <<issued, images, tasks>>
    /\ UNCHANGED <<waitVars, otherVars, limits, puts>>

\* The answers an asset PUT of a submission meets in the model.
BulkOutcomes == {Answer(200), Answer(503), Answer(403)}

\* One upload of the batch makes a PUT attempt, while gather (line 1770)
\* waits or the failure of another upload is still on its way to it.
GatherPut ==
    /\ bulk.pc = "local_images"
    /\ up.pc = "gather"
    /\ \E i \in DOMAIN tasks :
          /\ TaskPut(i, BulkOutcomes)
          /\ puts' = IF tasks'[i].puts > tasks[i].puts
                     THEN puts \cup {<<i, tasks[i].url>>} ELSE puts
    /\ UNCHANGED <<waitVars, otherVars, limits, images, bulk, up, net, issued>>

\* One upload of the batch ends its backoff sleep.
GatherSleep ==
    /\ bulk.pc = "local_images"
    /\ up.pc = "gather"
    /\ \E i \in DOMAIN tasks : TaskSleep(i)
    /\ UNCHANGED <<waitVars, otherVars, bulkVars>>

SomeUploadReturned == \E i \in DOMAIN tasks : tasks[i].pc = "returned"

AllUploadsSettled ==
    \A i \in DOMAIN tasks : tasks[i].pc \in {"none", "returned", "raised"}

\* await asyncio.gather(*tasks) returns (line 1770): every upload handed to
\* it has returned.
AllUploadsReturned ==
    \A i \in DOMAIN tasks : tasks[i].pc \in {"none", "returned"}

\* Every upload of the batch has returned: gather returns and the loop goes
\* on with the next batch (lines 1770-1778).
GatherDone ==
    /\ bulk.pc = "local_images"
    /\ up.pc = "gather"
    /\ AllUploadsReturned
    /\ up' = [up EXCEPT !.pc = "loop", !.total_transfer_size = 0,
                        !.file_sizes = <<>>, !.last_i = up.i + 1, !.i = up.i + 1]
    /\ UNCHANGED <<waitVars, otherVars, tasks, limits, images, bulk, net, puts, issued>>

\* An upload has raised: gather raises its exception, nothing catches it in
\* __upload_local_images, __run_upload_local_images or create_bulk, and
\* asyncio.run cancels the uploads still under way (lines 1770, 1804, 1850).
GatherRaise ==
    /\ bulk.pc = "local_images"
    /\ up.pc = "gather"
    /\ \E i \in DOMAIN tasks :
          /\ tasks[i].pc = "raised"
          /\ up' = [up EXCEPT !.pc = "raised", !.exc = tasks[i].exc]
          /\ bulk' = [bulk EXCEPT !.pc = "raised", !.exc = tasks[i].exc]
    /\ tasks' = [i \in DOMAIN tasks |->
                   IF tasks[i].pc \in {"put", "sleep"}
                   THEN [tasks[i] EXCEPT !.pc = "cancelled"] ELSE tasks[i]]
    /\ UNCHANGED <<waitVars, otherVars, limits, images, net, puts, issued>>

----------------------------------------------------------------------------
(* Job._upload_params (job.py lines 288-323), Job.create (lines 24-69) and *)
(* the bulk submissions of curate.py: Annotation.create_bulk (lines        *)
(* 232-291), Image.create_bulk (1806-1871), Image.delete_bulk (2245-2320). *)

BulkOps == {"Annotation.create_bulk", "Image.create_bulk", "Image.delete_bulk"}

\* The job_type each submission passes to Job.create (lines 281, 1861, 2308).
JobTypeOf(op) ==
    CASE op = "Annotation.create_bulk" -> "ANNOTATION_IMPORT"
      [] op = "Image.create_bulk" -> "IMAGE_IMPORT"
      [] op = "Image.delete_bulk" -> "DELETE_IMAGES"

\* The first statements of a submission: the entity list is built, and
\* Image.create_bulk with local images runs their upload first (lines
\* 1839-1852); every other case goes to Job._upload_params.
BulkStart ==
    /\ bulk.pc = "start"
    /\ IF bulk.op = "Image.create_bulk" /\ images # <<>>
       THEN /\ bulk' = [bulk EXCEPT !.pc = "local_images"]
            /\ up' = [NoUpload EXCEPT !.pc = "loop"]
       ELSE /\ bulk' = [bulk EXCEPT !.pc = "upload_params"]
            /\ UNCHANGED up
    /\ UNCHANGED <<waitVars, otherVars, tasks, limits, images, net, puts, issued>>

\* The request for the upload target of the parameter blob (lines 297-312).
UploadParamsRequest ==
    /\ bulk.pc = "upload_params"
    /\ \/ /\ net' = Append(net, [Event("param_target") EXCEPT !.id = issued + 1])
          /\ issued' = issued + 1
          /\ bulk' = [bulk EXCEPT !.pc = "put_params", !.uploaded_param = issued + 1]
       \/ /\ net' = Append(net, Event("param_target_failed"))
          /\ bulk' = [bulk EXCEPT !.pc = "raised", !.exc = "APIError"]
          /\ UNCHANGED issued
    /\ UNCHANGED <<waitVars, otherVars, tasks, limits, images, up, puts>>

PutAlwaysAccepted(status) == TRUE

\* if put_params_response.status_code != 200: raise (line 318)
PutAccepted(status) == status = 200

\* requests.put of the serialized entity list to the blob's upload url, and
\* the test of its status (lines 314-323).
UploadParamsPut ==
    /\ bulk.pc = "put_params"
    /\ \E status \in {200, 403, 500} :
          /\ net' = Append(net, [Event("param_put") EXCEPT
                                    !.id = bulk.uploaded_param,
                                    !.status = status,
                                    !.data = [im \in 1..Len(images) |->
                                                 images[im].asset_id]])
          /\ IF PutAccepted(status)
             THEN bulk' = [bulk EXCEPT !.pc = "create"]
             ELSE bulk' = [bulk EXCEPT !.pc = "raised", !.exc = "SuperbAIError"]
    /\ UNCHANGED <<waitVars, otherVars, tasks, limits, images, up, puts, issued>>

\* "param_id": uploaded_param["id"] (lines 284, 1864, 2312)
ParamIdOf(b) == b.uploaded_param

WaitsAlways(asynchronous) == TRUE

\* if not asynchronous: job.wait_until_complete() (lines 288, 1868, 2317)
WaitsForJob(asynchronous) == ~asynchronous

\* Job.create and what follows it in the submission: the request carries the
\* job type and the blob id; the service answers with the job, in any status,
\* or the request fails. An asynchronous call returns the job, the other
\* enters job.wait_until_complete().
JobCreate ==
    /\ bulk.pc = "create"
    /\ \/ \E s \in Statuses :
            /\ net' = Append(net, [Event("job_create") EXCEPT
                                      !.job_type = JobTypeOf(bulk.op),
                                      !.id = ParamIdOf(bulk)])
            /\ job' = [exists |-> TRUE, status |-> s,
                       job_type |-> JobTypeOf(bulk.op),
                       param_id |-> ParamIdOf(bulk)]
            /\ IF WaitsForJob(bulk.asynchronous)
               THEN /\ WaitEnter(None, s)
                    /\ bulk' = [bulk EXCEPT !.pc = "wait"]
               ELSE /\ bulk' = [bulk EXCEPT !.pc = "returned"]
                    /\ UNCHANGED wait
       \/ /\ net' = Append(net, [Event("job_create_failed") EXCEPT
                                    !.job_type = JobTypeOf(bulk.op),
                                    !.id = ParamIdOf(bulk)])
          /\ bulk' = [bulk EXCEPT !.pc = "raised", !.exc = "APIError"]
          /\ UNCHANGED <<job, wait>>
    /\ UNCHANGED <<default_timeout, otherVars, tasks, limits, images, up, puts, issued>>

\* job.wait_until_complete() has returned or raised: so does the submission
\* (lines 289-291, 1869-1871, 2318-2320).
WaitOver ==
    /\ bulk.pc = "wait"
    /\ wait.pc \in {"returned", "raised"}
    /\ bulk' = [bulk EXCEPT !.pc = wait.pc, !.exc = wait.exc]
    /\ UNCHANGED <<waitVars, otherVars, tasks, limits, images, up, net, puts, issued>>

----------------------------------------------------------------------------
(* The specification of one bulk submission. *)

\* ImageSourceLocal.__init__ (curate.py 2394-2423): the source keeps the
\* bytes given in _asset, or the path given in _asset_path with _asset None.
HoldsBytes(source) == source = "bytes"

\* The local assets a caller submits: held as bytes or named by a path, of
\* 10, 5 and 21 units of 1,000,000 bytes. held tells whether _asset is set;
\* read_file returns the bytes of a path without keeping them (lines
\* 2431-2440), and no statement of the submission calls unload_asset or
\* assigns _asset.
Assets ==
    {[source |-> "bytes", size |-> 10, asset_id |-> 0, held |-> HoldsBytes("bytes")],
     [source |-> "path", size |-> 5, asset_id |-> 0, held |-> HoldsBytes("path")],
     [source |-> "bytes", size |-> 21, asset_id |-> 0, held |-> HoldsBytes("bytes")]}

\* The limits in force: the package's own, or set by the caller.
LimitSettings ==
    {PackageLimits,
     [bulk_upload_bytes_max |-> 25, bulk_upload_object_max |-> 10],
     [bulk_upload_bytes_max |-> 20, bulk_upload_object_max |-> 2]}

ImageLists == UNION {[1..n -> Assets] : n \in 0..MaxImages}

\* spb_curate.timeout as a caller who waits for the job has set it: long
\* enough for one full and one shortened sleep.
CallerTimeout == 3

InitBulk ==
    /\ job = NoJob
    /\ wait = NoWait
    /\ limits \in LimitSettings
    /\ \E op \in BulkOps, a \in BOOLEAN :
          bulk = [NoBulk EXCEPT !.pc = "start", !.op = op, !.asynchronous = a]
    /\ default_timeout = (IF bulk.asynchronous THEN PackageTimeout ELSE CallerTimeout)
    /\ images \in (IF bulk.op = "Image.create_bulk" THEN ImageLists ELSE {<<>>})
    /\ tasks = [im \in 1..Len(images) |-> NoTask]
    /\ up = NoUpload
    /\ net = <<>>
    /\ puts = {}
    /\ issued = 0
    /\ NoOtherCall

NextBulk ==
    \/ BulkStart
    \/ UploadLoopStep
    \/ RequestTargets
    \/ GatherPut
    \/ GatherSleep
    \/ GatherDone
    \/ GatherRaise
    \/ UploadParamsRequest
    \/ UploadParamsPut
    \/ JobCreate
    \/ WaitCheck
    \/ WaitSleep
    \/ WaitRefresh
    \/ WaitOver

SpecBulk == InitBulk /\ [][NextBulk]_vars

----------------------------------------------------------------------------
(* Properties of Job.wait_until_complete. *)

WaitDone == wait.pc \in {"returned", "raised"}

\* The budget T of a call bounds its polling: at most ceil(T/2) refreshes and
\* at most T seconds of sleep (none of either when T <= 0); a terminal status
\* seen by a check ends the call at once, a sleep is only started with budget
\* left, and a return without a terminal status means the budget is used up.
WaitBudget ==
    /\ wait.slept <= Max(wait.T, 0)
    /\ 2 * wait.refreshes <= Max(wait.T, 0) + 1
    /\ wait.seen_terminal => wait.pc = "returned"
    /\ wait.pc \in {"sleep", "refresh"} => wait.timeout + frequency > 0
    /\ (wait.pc = "returned" /\ ~wait.seen_terminal) => wait.timeout <= 0

\* C1: for any sequence of statuses delivered by the refreshes,
\* wait_until_complete(timeout=T) terminates, returning as soon as a check
\* sees COMPLETE or FAILED and otherwise once the budget is exhausted, after
\* at most ceil(T/2) refreshes and at most T seconds of sleep in total.
C1_WaitTerminatesWithinBudget == [](WaitBudget) /\ <>(WaitDone)

C1_Witness ==
    /\ wait.pc = "returned" /\ ~wait.seen_terminal
    /\ wait.T = 3 /\ wait.refreshes = 2 /\ wait.slept = 3

\* C2: when the budget runs out while the job is not COMPLETE or FAILED and no
\* refresh raised, wait_until_complete returns normally, and the job's status
\* is the one delivered by the last refresh, which came after the last sleep.
C2_TimeoutReturnsLastStatus ==
    (WaitDone /\ ~wait.seen_terminal /\ wait.exc = "none") =>
        /\ wait.pc = "returned"
        /\ ~IsTerminal(job.status)
        /\ wait.sleeps > 0 =>
              /\ wait.last = "refresh"
              /\ wait.refreshes = wait.sleeps
              /\ job.status = wait.delivered

C2_Witness ==
    /\ wait.pc = "returned" /\ ~wait.seen_terminal
    /\ wait.sleeps = 2 /\ wait.last = "refresh" /\ job.status = "RUNNING"

----------------------------------------------------------------------------
(* Properties of Image.__upload_asset. *)

\* The number of entries of a history that took a unit of the retry budget.
RECURSIVE Failures(_)
Failures(h) ==
    IF h = <<>> THEN 0
    ELSE Failures(Tail(h))
         + (IF Head(h).kind = "ClientError"
               \/ (Head(h).kind = "status" /\ Head(h).status \in {500, 502, 503, 504})
            THEN 1 ELSE 0)

\* k failures that are retried, then the answer 200.
FailedThenOk(h) ==
    /\ h # <<>>
    /\ h[Len(h)] = Answer(200)
    /\ Failures(h) = Len(h) - 1

\* C7: an upload makes at most MAX_RETRY_COUNT PUT attempts; after k <
\* MAX_RETRY_COUNT retryable failures (statuses 500, 502, 503, 504 and network
\* errors alike) followed by the answer 200 it has returned normally, having
\* slept factor * 2^(attempt-1) after the attempt-th failure; after
\* MAX_RETRY_COUNT failures, of either kind, it has raised RetryableError.
C7_RetryBackoff ==
    \A i \in DOMAIN tasks :
        LET t == tasks[i]
            k == Failures(t.history)
        IN  /\ t.puts <= MAX_RETRY_COUNT
            /\ t.puts = Len(t.history)
            /\ t.pc = "sleep" => t.sleep = BACKOFF_FACTOR * (2 ^ (t.attempt - 1))
            /\ FailedThenOk(t.history) =>
                  /\ k < MAX_RETRY_COUNT
                  /\ t.pc = "returned"
                  /\ t.slept = [a \in 1..k |-> BACKOFF_FACTOR * (2 ^ (a - 1))]
            /\ k = MAX_RETRY_COUNT => t.pc = "raised" /\ t.exc = "RetryableError"
            /\ t.pc = "returned" => FailedThenOk(t.history)

C7_Witness ==
    \E i \in DOMAIN tasks :
        /\ tasks[i].pc = "returned"
        /\ tasks[i].history = <<ClientError, Answer(200)>>
        /\ tasks[i].slept = <<1>>

----------------------------------------------------------------------------
(* Properties of the bulk submissions. *)

BulkDone == bulk.pc \in {"returned", "raised"}

Presigns == {n \in DOMAIN net : net[n].kind = "presign"}

JobRequests == {n \in DOMAIN net : net[n].kind \in {"job_create", "job_create_failed"}}

\* C3: a submission called with asynchronous=False returns the job only after
\* the job's status is COMPLETE or FAILED or the timeout has elapsed; called
\* with asynchronous=True it returns right after the job-creation request,
\* with no refresh of the job and no sleep.
C3_SynchronousWait ==
    bulk.pc = "returned" =>
        /\ JobRequests # {}
        /\ job.exists
        /\ IF bulk.asynchronous
           THEN /\ wait.pc = "none" /\ wait.refreshes = 0 /\ wait.sleeps = 0
                /\ net[Len(net)].kind = "job_create"
           ELSE /\ wait.pc = "returned"
                /\ job.status \in {"COMPLETE", "FAILED"} \/ wait.slept >= default_timeout

C3_Witness ==
    /\ bulk.pc = "returned" /\ ~bulk.asynchronous
    /\ job.status = "RUNNING" /\ wait.slept = default_timeout /\ wait.refreshes = 2

\* C4: the parameter blob is uploaded (its target requested, its PUT answered
\* 200) before the job-creation request is sent; that request carries the id
\* of that blob as param_id and the job type of the operation; a blob PUT not
\* answered 200 raises, and no job-creation request follows.
C4_UploadThenReference ==
    /\ \A n \in JobRequests :
          /\ n >= 3
          /\ net[n - 2].kind = "param_target"
          /\ net[n - 1].kind = "param_put" /\ net[n - 1].status = 200
          /\ net[n - 1].id = net[n - 2].id
          /\ net[n].id = net[n - 2].id
          /\ bulk.op = "Annotation.create_bulk" => net[n].job_type = "ANNOTATION_IMPORT"
          /\ bulk.op = "Image.create_bulk" => net[n].job_type = "IMAGE_IMPORT"
          /\ bulk.op = "Image.delete_bulk" => net[n].job_type = "DELETE_IMAGES"
    /\ \A n \in DOMAIN net :
          (net[n].kind = "param_put" /\ net[n].status # 200) =>
              /\ n = Len(net)
              /\ bulk.pc = "raised" /\ bulk.exc = "SuperbAIError"
    /\ bulk.pc \in {"create", "wait", "returned"} =>
          \E n \in DOMAIN net : net[n].kind = "param_put" /\ net[n].status = 200
    /\ job.exists => job.param_id = bulk.uploaded_param /\ bulk.uploaded_param # 0

C4_Witness ==
    /\ bulk.op = "Annotation.create_bulk"
    /\ bulk.pc = "returned"
    /\ Len(net) = 3
    /\ net[3].kind = "job_create" /\ net[3].job_type = "ANNOTATION_IMPORT"
    /\ net[3].id = net[1].id

RECURSIVE SumSeq(_)
SumSeq(q) == IF q = <<>> THEN 0 ELSE Head(q) + SumSeq(Tail(q))

\* The longest prefix of sizes that respects both limits (one asset at least).
RECURSIVE FitCount(_, _, _, _, _)
FitCount(sizes, n, total, maxb, maxo) ==
    IF n = Len(sizes) THEN n
    ELSE IF n >= 1 /\ (total + sizes[n + 1] > maxb \/ n + 1 > maxo) THEN n
    ELSE FitCount(sizes, n + 1, total + sizes[n + 1], maxb, maxo)

\* The partition of sizes, in input order, into the fewest batches that each
\* respect both limits: every batch takes as many assets as fit.
RECURSIVE MinimalPartition(_, _, _)
MinimalPartition(sizes, maxb, maxo) ==
    IF sizes = <<>> THEN <<>>
    ELSE LET n == FitCount(sizes, 0, 0, maxb, maxo)
         IN  <<SubSeq(sizes, 1, n)>>
             \o MinimalPartition(SubSeq(sizes, n + 1, Len(sizes)), maxb, maxo)

\* The batches requested so far, in the order of their requests.
RECURSIVE BatchesOf(_)
BatchesOf(log) ==
    IF log = <<>> THEN <<>>
    ELSE (IF Head(log).kind \in {"presign", "presign_failed"}
          THEN <<Head(log).file_sizes>> ELSE <<>>) \o BatchesOf(Tail(log))

ImageSizes == [im \in 1..Len(images) |-> images[im].size]

NoOversize == \A im \in 1..Len(images) : images[im].size <= UPLOAD_IMAGE_FILE_BYTES_MAX

\* C5: the batches of the local-image upload are the minimal-count partition
\* of the input, in input order, in which every batch holds at most max_bytes
\* bytes and at most max_objects assets; sizes [10,10,10] with max_bytes=25
\* and max_objects=10 give [10,10] then [10].
C5_MinimalBatches ==
    NoOversize =>
        LET want == MinimalPartition(ImageSizes, limits.bulk_upload_bytes_max,
                                     limits.bulk_upload_object_max)
            got == BatchesOf(net)
        IN  /\ Len(got) <= Len(want)
            /\ \A b \in 1..Len(got) : got[b] = want[b]
            /\ up.pc = "returned" => Len(got) = Len(want)

\* C6: if any asset of the input list is larger than the per-file ceiling, the
\* upload raises ValidationError before any network call: no request for
\* upload targets and no asset upload has been made.
C6_OversizeBeforeNetwork ==
    ~NoOversize =>
        /\ net = <<>>
        /\ puts = {}
        /\ BulkDone => bulk.pc = "raised" /\ bulk.exc = "ValidationError"

\* C8: the i-th asset of a batch is uploaded to the upload url of the i-th
\* target returned for that batch, and the id recorded on its source is the id
\* of that same target; no asset records the id, or uses the url, of a target
\* assigned to another asset.
C8_TargetsNotCrossed ==
    /\ \A p \in puts :
          \E n \in Presigns : \E j \in DOMAIN net[n].results :
              p[1] = net[n].first + j /\ p[2] = net[n].results[j]
    /\ \A im \in 1..Len(images) :
          images[im].asset_id # 0 =>
              \E n \in Presigns : \E j \in DOMAIN net[n].results :
                  /\ im = net[n].first + j
                  /\ images[im].asset_id = net[n].results[j]
                  /\ \A m \in Presigns : \A h \in DOMAIN net[m].results :
                        (im = net[m].first + h) => m <= n
    /\ \A im \in DOMAIN tasks :
          tasks[im].pc # "none" =>
              /\ tasks[im].image = im
              /\ \E n \in Presigns : \E j \in DOMAIN net[n].results :
                    im = net[n].first + j /\ tasks[im].url = net[n].results[j]
    /\ \A p, q \in puts : p[2] = q[2] => p[1] = q[1]
    /\ \A a, b \in 1..Len(images) :
          (a # b /\ images[a].asset_id # 0) => images[a].asset_id # images[b].asset_id

C8_Witness ==
    /\ Cardinality(Presigns) = 2
    /\ Cardinality(puts) >= 4
    /\ \E im \in DOMAIN tasks : tasks[im].pc = "put" /\ tasks[im].attempt = 1
    /\ \E im \in DOMAIN tasks : tasks[im].pc = "returned" /\ tasks[im].attempt = 0

\* C9: batches are issued one after another in input order, with exactly one
\* request for upload targets per batch, and the request for the next batch
\* is not sent until every upload of the batch before has returned.
C9_BatchesInOrder ==
    LET got == BatchesOf(net)
        Start(b) == SumSeq([c \in 1..(b - 1) |-> Len(got[c])])
        reqs == {n \in DOMAIN net : net[n].kind \in {"presign", "presign_failed"}}
    IN  /\ \A n \in reqs :
              LET b == Cardinality({m \in reqs : m <= n})
              IN  /\ net[n].first = Start(b)
                  /\ net[n].file_sizes =
                        SubSeq(ImageSizes, Start(b) + 1, Start(b) + Len(got[b]))
                  /\ net[n].file_sizes # <<>>
        /\ up.pc \in {"loop", "request", "returned"} =>
              \A im \in DOMAIN tasks : tasks[im].pc \in {"none", "returned"}
        /\ up.pc \in {"loop", "request", "returned"} =>
              \A p \in puts : tasks[p[1]].pc = "returned"
        /\ up.pc = "gather" => up.last_i = Start(Len(got))

C9_Witness ==
    /\ Cardinality(Presigns) = 2
    /\ up.pc = "gather"
    /\ tasks[1].pc = "returned" /\ tasks[1].attempt = 1
    /\ tasks[2].pc = "returned"
    /\ tasks[3].pc = "put"

\* An upload has failed: its retry budget is used up, or an answer that is
\* neither 200 nor retryable has come.
UploadFailed(t) ==
    \/ Failures(t.history) >= MAX_RETRY_COUNT
    \/ \E n \in DOMAIN t.history :
          /\ t.history[n].kind = "status"
          /\ t.history[n].status \notin {200, 500, 502, 503, 504}

SomeUploadFailed == \E i \in DOMAIN tasks : UploadFailed(tasks[i])

\* C10: once the upload of an asset has failed, Image.create_bulk can only
\* raise that error: the stage does not go on, no further batch is requested,
\* no parameter blob is uploaded and no job is created.
C10_FailedUploadAborts ==
    /\ [](SomeUploadFailed =>
            /\ bulk.pc \in {"local_images", "raised"}
            /\ up.pc \in {"gather", "raised"}
            /\ ~job.exists
            /\ \A n \in DOMAIN net : net[n].kind \in {"presign", "presign_failed"}
            /\ bulk.pc = "raised" =>
                  \E i \in DOMAIN tasks :
                      UploadFailed(tasks[i]) /\ tasks[i].pc = "raised"
                      /\ bulk.exc = tasks[i].exc)
    /\ [][SomeUploadFailed => (net' = net /\ job' = job)]_vars

C10_Witness ==
    /\ bulk.pc = "raised" /\ bulk.exc = "RetryableError"
    /\ Cardinality(Presigns) = 1
    /\ Len(images) = 3
    /\ \E i \in DOMAIN tasks : tasks[i].pc = "cancelled"
    /\ \E i \in DOMAIN tasks : tasks[i].pc = "returned"

----------------------------------------------------------------------------
(* The resource operations of abstract/api/resource.py over the requestor  *)
(* of api_requestor.py.                                                    *)

\* An optional string: Python's None, or a str.
NoStr == [isNone |-> TRUE, s |-> ""]

Str(s) == [isNone |-> FALSE, s |-> s]

\* The truth value Python gives an optional string in `if x` and `x or y`.
Truthy(v) == ~v.isNone /\ v.s # ""

Or(a, b) == IF Truthy(a) THEN a ELSE b

\* An endpoint template as the pieces str.format tells apart: literal text
\* and replacement fields {name}.
Lit(s) == [field |-> FALSE, s |-> s]

Field(name) == [field |-> TRUE, s |-> name]

\* A url: None, or the text of its pieces.
NoUrl == [isNone |-> TRUE, parts |-> <<>>]

Url(parts) == [isNone |-> FALSE, parts |-> parts]

\* The _endpoints tables: Dataset (curate.py 708-714), Image (1601-1607),
\* SearchFieldMapping (2502-2504); Evaluation (model_diagnosis.py 415)
\* declares none and inherits the empty table of SuperbAIObject (line 19).
endpoints(cls) ==
    CASE cls = "Dataset" ->
            ( "create" :> <<Lit("/datasets/")>>
           @@ "delete" :> <<Lit("/datasets/"), Field("id"), Lit("/")>>
           @@ "fetch" :> <<Lit("/datasets/"), Field("id"), Lit("/")>>
           @@ "paginate" :> <<Lit("/datasets/")>>
           @@ "modify" :> <<Lit("/datasets/"), Field("id")>> )
      [] cls = "Image" ->
            ( "bulk_asset_upload" :> <<Lit("/assets/bulk/")>>
           @@ "delete" :> <<Lit("/datasets/"), Field("dataset_id"), Lit("/images/"),
                            Field("id"), Lit("/")>>
           @@ "fetch" :> <<Lit("/datasets/"), Field("dataset_id"), Lit("/images/"),
                           Field("id"), Lit("/")>>
           @@ "paginate" :> <<Lit("/datasets/"), Field("dataset_id"),
                              Lit("/images/_search")>>
           @@ "modify" :> <<Lit("/datasets/"), Field("dataset_id"), Lit("/images/"),
                            Field("id"), Lit("/metadata")>> )
      [] cls = "SearchFieldMapping" ->
            ( "paginate" :> <<Lit("/datasets/"), Field("dataset_id"),
                              Lit("/search-field-mappings")>> )
      [] OTHER -> <<>>

\* The _endpoints_method tables: Dataset (curate.py 715-717), Image
\* (1608-1610); the others declare none (superb_ai_object.py line 20).
endpoints_method(cls) ==
    CASE cls = "Dataset" -> ("modify" :> "patch")
      [] cls = "Image" -> ("paginate" :> "post")
      [] OTHER -> <<>>

\* The replacement fields of a template.
FieldsOf(template) ==
    {template[n].s : n \in {m \in DOMAIN template : template[m].field}}

\* url.format(**params): every replacement field gives way to the str of the
\* parameter of its name.
Format(template, params) ==
    [n \in DOMAIN template |->
        IF template[n].field THEN Lit(params[template[n].s].s) ELSE template[n]]

NoneIsAccepted(v) == v = Str("")

\* if v in ["", None] (superb_ai_object.py line 67)
IsMissing(v) == v.isNone \/ v.s = ""

\* SuperbAIObject.get_endpoint (superb_ai_object.py 61-74). params is the
\* mapping given (the empty mapping also stands for None); the result is the
\* url, or the exception raised.
get_endpoint(cls, name, params) ==
    LET table == endpoints(cls)
        url == IF name \in DOMAIN table THEN Url(table[name]) ELSE NoUrl
    IN  IF ~url.isNone /\ url.parts # <<>> /\ DOMAIN params # {}
        THEN IF \E k \in DOMAIN params : IsMissing(params[k])
             THEN [exc |-> "ValidationError", url |-> NoUrl]
             ELSE IF ~(FieldsOf(url.parts) \subseteq DOMAIN params)
             THEN [exc |-> "KeyError", url |-> NoUrl]
             ELSE [exc |-> "none", url |-> Url(Format(url.parts, params))]
        ELSE [exc |-> "none", url |-> url]

\* default=None of get_endpoint_method.
NoMethod == "None"

\* The default wins over the class's declaration.
DefaultFirst(cls, name, default) ==
    IF default # NoMethod THEN [exc |-> "none", method |-> default]
    ELSE IF name \in DOMAIN endpoints_method(cls)
    THEN [exc |-> "none", method |-> endpoints_method(cls)[name]]
    ELSE [exc |-> "ValidationError", method |-> NoMethod]

\* SuperbAIObject.get_endpoint_method (superb_ai_object.py 76-83): the
\* method, or the exception raised.
get_endpoint_method(cls, name, default) ==
    IF default = NoMethod /\ name \notin DOMAIN endpoints_method(cls)
    THEN [exc |-> "ValidationError", method |-> NoMethod]
    ELSE [exc |-> "none",
          method |-> IF name \in DOMAIN endpoints_method(cls)
                     THEN endpoints_method(cls)[name] ELSE default]


\* The endpoint an operation resolves: refresh uses the "fetch" endpoint
\* (resource.py line 73), fetch_all and fetch_page the "paginate" one.
EndpointOf(op) == IF op = "refresh" THEN "fetch" ELSE op

\* The default= each operation gives get_endpoint_method (resource.py lines
\* 53, 74, 110, 139, 193, 312).
DefaultMethodOf(op) ==
    CASE op \in {"fetch", "refresh", "paginate"} -> "get"
      [] op = "create" -> "post"
      [] op = "delete" -> "delete"
      [] op = "modify" -> "put"

\* A header value: a str given by the code or the caller, or the str of the
\* token-th uuid4 drawn.
Given(s) == [token |-> 0, s |-> s]

Generated(token) == [token |-> token, s |-> "uuid4"]

GeneratesKeyAlways(method) == TRUE

\* if method == "post" or method == "put" or method == "patch" (line 191)
GeneratesKey(method) == method \in {"post", "put", "patch"}

\* APIRequestor.request_headers (api_requestor.py 167-195); fresh is the
\* token uuid.uuid4() gives this call.
request_headers(access_key, team_name, method, fresh) ==
    LET headers == ( "X-Api-Key" :> Given(access_key.s)
                  @@ "X-Tenant-Id" :> Given(team_name.s) )
    IN  IF GeneratesKey(method)
        THEN headers @@ ( "Content-Type" :> Given("application/json")
                       @@ "Idempotency-Key" :> Generated(fresh) )
        ELSE headers

NoRequest == [method |-> "none", base |-> NoStr, url |-> NoUrl, headers |-> <<>>]

\* my_access_key of request_raw (lines 209-214): the requestor's own key, or
\* the package's.
MyAccessKey(self, package) ==
    IF Truthy(self.access_key) THEN self.access_key ELSE package.access_key

\* my_team_name of request_raw (lines 219-224).
MyTeamName(self, package) ==
    IF Truthy(self.team_name) THEN self.team_name ELSE package.team_name

\* APIRequestor.__init__ (lines 50-61) for the arguments of a resource
\* operation: none of them passes api_base.
Requestor(args, package) ==
    [api_base |-> Or(NoStr, package.api_base),
     access_key |-> Or(args.access_key, package.access_key),
     team_name |-> Or(args.team_name, package.team_name)]

\* APIRequestor.request_raw (lines 197-256) up to the call of the transport:
\* the request handed to it, or the exception raised before.
request_raw(self, package, method, url, supplied_headers, fresh) ==
    LET my_access_key == MyAccessKey(self, package)
        my_team_name == MyTeamName(self, package)
        headers == supplied_headers
                   @@ request_headers(my_access_key, my_team_name, method, fresh)
        content_type == IF "Content-Type" \in DOMAIN headers
                        THEN headers["Content-Type"].s ELSE ""
    IN  IF my_access_key.isNone THEN [exc |-> "AuthenticationError", request |-> NoRequest]
        ELSE IF my_team_name.isNone THEN [exc |-> "AuthenticationError", request |-> NoRequest]
        ELSE IF method \in {"get", "delete"}
        THEN [exc |-> "none",
              request |-> [method |-> method, base |-> self.api_base, url |-> url,
                           headers |-> headers]]
        ELSE IF method \in {"post", "put", "patch"}
        THEN IF content_type \in {"application/json", "application/x-www-form-urlencoded"}
             THEN [exc |-> "none",
                   request |-> [method |-> method, base |-> self.api_base, url |-> url,
                                headers |-> headers]]
             ELSE [exc |-> "APIConnectionError", request |-> NoRequest]
        ELSE [exc |-> "APIConnectionError", request |-> NoRequest]

\* A response body as json.loads tells bodies apart: empty, a JSON object
\* with its "type" member, another JSON value, or text that is not JSON.
Body(kind, type) == [kind |-> kind, type |-> type]

StatusDecidesAlone(body) == TRUE

\* SuperbAIResponse(rbody, rcode, rheaders) succeeds (api_requestor.py
\* 277-288, superb_ai_response.py line 10): the body is empty or is JSON.
Decodes(body) == body.kind # "invalid"

\* APIRequestor._should_handle_code_as_error (lines 273-274)
should_handle_code_as_error(rcode) == ~(200 <= rcode /\ rcode < 300)

\* APIRequestor.specific_api_error (lines 90-151): the class of the error.
specific_api_error(rcode, error_type) ==
    CASE rcode = 400 ->
            IF error_type = "QUERY_SYNTAX" THEN "QuerySyntaxError" ELSE "BadRequestError"
      [] rcode = 401 -> "AuthenticationError"
      [] rcode = 404 -> "NotFoundError"
      [] rcode = 409 -> "ConflictError"
      [] rcode = 429 -> "TooManyRequestsError"
      [] rcode = 500 -> "SystemError"
      [] OTHER -> "APIError"

\* APIRequestor.handle_error_response (lines 69-88): error_type is the "type"
\* member of a JSON object and "" for every other body.
handle_error_response(rcode, body) ==
    specific_api_error(rcode, IF body.kind = "dict" THEN body.type ELSE "")

\* APIRequestor.interpret_response (lines 276-293): the class of the error
\* raised, or "none" when the response is returned.
interpret_response(rcode, body) ==
    IF ~Decodes(body) THEN "APIError"
    ELSE IF should_handle_code_as_error(rcode) THEN handle_error_response(rcode, body)
    ELSE "none"


\* Most resource operations called one after another in a behaviour.
MaxCalls == 2

NoArgs == [access_key |-> NoStr, team_name |-> NoStr]

NoReply == [failed |-> FALSE, rcode |-> 0, rbody |-> Body("none", "")]

\* What the transport gives back: a status with a body, or no response at
\* all (http_client.py 82-86 raises APIConnectionError).
Reply(rcode, body) == [failed |-> FALSE, rcode |-> rcode, rbody |-> body]

NoResponse == [failed |-> TRUE, rcode |-> 0, rbody |-> Body("none", "")]

\* The process before its first resource operation, with the package-level
\* settings spb_curate.access_key, team_name and api_base.
IdleHttp(config) ==
    [pc |-> "idle", exc |-> "none", config |-> config,
     cls |-> "none", op |-> "none", endpoint_params |-> <<>>, args |-> NoArgs,
     supplied |-> <<>>, template |-> NoUrl, request |-> NoRequest, invoked |-> 0,
     calls |-> 0, tokens |-> 0, log |-> <<>>, reply |-> NoReply,
     default |-> NoMethod, method |-> NoMethod]

\* One resource operation (resource.py: fetch 36-62, refresh 64-89, create
\* 93-119, _cls_delete 123-148, fetch_all 176-222, _cls_modify 296-321) from
\* its call to the transport's call: get_endpoint, get_endpoint_method, the
\* requestor and request_raw.
ResourceCall(Ops, Params, Args, Headers) ==
    /\ http.pc \in {"idle", "returned", "raised", "looked"}
    /\ http.calls < MaxCalls
    /\ \E o \in Ops, params \in Params, args \in Args, headers \in Headers :
          LET cls == o[1]
              op == o[2]
              e == get_endpoint(cls, EndpointOf(op), params)
              method == get_endpoint_method(cls, EndpointOf(op), DefaultMethodOf(op)).method
              self == Requestor(args, http.config)
              r == request_raw(self, http.config, method, e.url, headers, http.tokens + 1)
              drawn == /\ e.exc = "none"
                       /\ ~MyAccessKey(self, http.config).isNone
                       /\ ~MyTeamName(self, http.config).isNone
                       /\ GeneratesKey(method)
              exc == IF e.exc # "none" THEN e.exc ELSE r.exc
              call == [http EXCEPT !.cls = cls, !.op = op, !.endpoint_params = params,
                                   !.args = args, !.supplied = headers,
                                   !.template =
                                       IF EndpointOf(op) \in DOMAIN endpoints(cls)
                                       THEN Url(endpoints(cls)[EndpointOf(op)]) ELSE NoUrl,
                                   !.calls = @ + 1, !.reply = NoReply,
                                   !.tokens = IF drawn THEN @ + 1 ELSE @]
          IN  http' = IF exc # "none"
                      THEN [call EXCEPT !.pc = "raised", !.exc = exc,
                                        !.request = NoRequest, !.invoked = 0]
                      ELSE [call EXCEPT !.pc = "sent", !.exc = "none",
                                        !.request = r.request, !.invoked = 1,
                                        !.log = Append(@, r.request)]
    /\ UNCHANGED <<waitVars, tasks, bulkVars, obj, client>>

\* The transport returns or raises, and request goes on with
\* interpret_response (api_requestor.py 161-165).
TransportAnswers(Replies) ==
    /\ http.pc = "sent"
    /\ \E a \in Replies :
          LET exc == IF a.failed THEN "APIConnectionError"
                     ELSE interpret_response(a.rcode, a.rbody)
          IN  http' = [http EXCEPT !.reply = a, !.exc = exc,
                                   !.pc = IF exc = "none" THEN "returned" ELSE "raised"]
    /\ UNCHANGED <<waitVars, tasks, bulkVars, obj, client>>

\* The operations the resource classes of the model carry: Dataset all six,
\* Image all but create, SearchFieldMapping its listing and the refresh it
\* inherits from APIResource.
ResourceOps ==
    ({"Dataset"} \X {"fetch", "refresh", "create", "modify", "delete", "paginate"})
    \cup ({"Image"} \X {"fetch", "refresh", "modify", "delete", "paginate"})
    \cup ({"SearchFieldMapping"} \X {"paginate", "refresh"})

ParamNames == {"id", "dataset_id"}

ParamValues == {NoStr, Str(""), Str("a")}

\* The endpoint_params a caller can give: a value for some of the names.
EndpointParams == UNION {[D -> ParamValues] : D \in SUBSET ParamNames}

GoodParams == [k \in ParamNames |-> Str("a")]

GoodConfig ==
    [access_key |-> Str("key"), team_name |-> Str("team"), api_base |-> Str("https://api")]

OkBody == Body("dict", "")

FewReplies == {Reply(200, OkBody), Reply(404, OkBody), NoResponse}

InitHttp(Configs) ==
    /\ default_timeout = PackageTimeout
    /\ job = NoJob
    /\ wait = NoWait
    /\ tasks = <<>>
    /\ NoBulkCall
    /\ obj = NoObj
    /\ client = NoClient
    /\ \E c \in Configs : http = IdleHttp(c)

\* Operations with every class, operation and value of endpoint_params.
InitEndpoint == InitHttp({GoodConfig})

CallEndpoint == ResourceCall(ResourceOps, EndpointParams, {NoArgs}, {<<>>})

AnswerFew == TransportAnswers(FewReplies)

NextEndpoint == CallEndpoint \/ AnswerFew

SpecEndpoint == InitEndpoint /\ [][NextEndpoint]_vars


\* The names get_endpoint_method is asked for: the operation kinds, the bulk
\* upload endpoint of Image, and a name no class declares.
EndpointNames ==
    {"fetch", "create", "modify", "delete", "paginate", "bulk_asset_upload", "sample"}

ResourceClasses == {"Dataset", "Image", "SearchFieldMapping", "Evaluation"}

\* The values of default=: None, or a method.
Defaults == {NoMethod, "get", "post", "put", "patch", "delete"}

\* A direct call cls.get_endpoint_method(name=name, default=default)
\* (superb_ai_object.py 76-83), as test_get_endpoint_method makes it.
LookupMethod ==
    /\ http.pc \in {"idle", "returned", "raised", "looked"}
    /\ http.calls < MaxCalls
    /\ \E cls \in ResourceClasses, name \in EndpointNames, default \in Defaults :
          LET found == get_endpoint_method(cls, name, default)
          IN  http' = [http EXCEPT !.pc = "looked", !.exc = found.exc, !.cls = cls,
                                   !.op = name, !.default = default,
                                   !.method = found.method, !.calls = @ + 1,
                                   !.request = NoRequest, !.invoked = 0, !.reply = NoReply]
    /\ UNCHANGED <<waitVars, tasks, bulkVars, obj, client>>

\* Direct lookups of the method between resource operations.
NextMethod == LookupMethod \/ CallEndpoint \/ AnswerFew

SpecMethod == InitEndpoint /\ [][NextMethod]_vars

----------------------------------------------------------------------------
(* Properties of the resource operations. *)

\* Some endpoint parameter the caller gave is None or the empty string.
SomeParamMissing ==
    \E k \in DOMAIN http.endpoint_params :
        http.endpoint_params[k].isNone \/ http.endpoint_params[k].s = ""

\* The endpoint template with the parameters given put in place of their
\* replacement fields.
Substituted ==
    [n \in DOMAIN http.template.parts |->
        LET piece == http.template.parts[n]
        IN  IF piece.field /\ piece.s \in DOMAIN http.endpoint_params
            THEN [field |-> FALSE, s |-> http.endpoint_params[piece.s].s]
            ELSE piece]

----------------------------------------------------------------------------
(* The specification of the responses: one operation, every status and body. *)

ReplyStatuses ==
    {199, 200, 201, 204, 299, 300, 302, 400, 401, 403, 404, 409, 422, 429, 500, 502, 503}

ReplyBodies ==
    {Body("empty", ""), Body("dict", ""), Body("dict", "QUERY_SYNTAX"),
     Body("dict", "OTHER"), Body("list", ""), Body("invalid", "")}

AllReplies == {Reply(c, b) : c \in ReplyStatuses, b \in ReplyBodies} \cup {NoResponse}

InitInterpret == InitHttp({GoodConfig})

CallPlain ==
    ResourceCall({<<"Dataset", "fetch">>, <<"Dataset", "create">>}, {GoodParams},
                 {NoArgs}, {<<>>})

AnswerAny == TransportAnswers(AllReplies)

NextInterpret == CallPlain \/ AnswerAny

SpecInterpret == InitInterpret /\ [][NextInterpret]_vars

\* A response has come for the operation.
Responded == http.pc \in {"returned", "raised"} /\ http.invoked > 0 /\ ~http.reply.failed

\* The error class the statuses stand for.
ErrorOfStatus(rcode, tag) ==
    CASE rcode = 400 -> IF tag = "QUERY_SYNTAX" THEN "QuerySyntaxError" ELSE "BadRequestError"
      [] rcode = 401 -> "AuthenticationError"
      [] rcode = 404 -> "NotFoundError"
      [] rcode = 409 -> "ConflictError"
      [] rcode = 429 -> "TooManyRequestsError"
      [] rcode = 500 -> "SystemError"
      [] OTHER -> "APIError"

TagOf(body) == IF body.kind = "dict" THEN body.type ELSE ""

\* C12, as stated: a response with a status outside 200..299 always raises,
\* and the error type is a function of the status alone (with the
\* QUERY_SYNTAX tag telling QuerySyntaxError from BadRequestError); a 2xx
\* response with a JSON or empty body raises nothing.
C12_StatusAlone ==
    Responded =>
        LET rcode == http.reply.rcode
            body == http.reply.rbody
        IN  IF rcode < 200 \/ rcode > 299
            THEN http.pc = "raised" /\ http.exc = ErrorOfStatus(rcode, TagOf(body))
            ELSE body.kind # "invalid" => http.pc = "returned" /\ http.exc = "none"

\* C12, amended: a response whose body is not JSON raises APIError whatever
\* its status, 2xx included; a response with a JSON or empty body and a
\* status outside 200..299 raises the error of its status, and with a 2xx
\* status raises nothing. Every response outside 200..299 raises.
C12_ErrorByStatusAndBody ==
    Responded =>
        LET rcode == http.reply.rcode
            body == http.reply.rbody
        IN  /\ (rcode < 200 \/ rcode > 299) => http.pc = "raised"
            /\ body.kind = "invalid" => http.pc = "raised" /\ http.exc = "APIError"
            /\ (body.kind # "invalid" /\ (rcode < 200 \/ rcode > 299)) =>
                  http.exc = ErrorOfStatus(rcode, TagOf(body))
            /\ (body.kind # "invalid" /\ 200 <= rcode /\ rcode <= 299) =>
                  http.pc = "returned" /\ http.exc = "none"

C12_Witness ==
    /\ Responded
    /\ http.reply.rcode = 404 /\ http.reply.rbody.kind = "invalid"
    /\ http.pc = "raised" /\ http.exc = "APIError"


----------------------------------------------------------------------------
(* The specification of the headers: every method, with and without       *)
(* headers of the caller.                                                  *)

CallerHeaders ==
    {<<>>,
     "Idempotency-Key" :> Given("callers-key"),
     "Content-Type" :> Given("application/x-www-form-urlencoded"),
     "Content-Type" :> Given("text/plain")}

MethodOps ==
    ({"Dataset"} \X {"fetch", "refresh", "create", "modify", "delete", "paginate"})
    \cup {<<"Image", "modify">>, <<"Image", "paginate">>}

InitHeaders == InitHttp({GoodConfig})

CallWithHeaders == ResourceCall(MethodOps, {GoodParams}, {NoArgs}, CallerHeaders)

NextHeaders == CallWithHeaders \/ AnswerFew

SpecHeaders == InitHeaders /\ [][NextHeaders]_vars

\* The Idempotency-Key of a request handed to the transport, if it has one.
HasKey(request) == "Idempotency-Key" \in DOMAIN request.headers

KeyOf(request) == request.headers["Idempotency-Key"]

\* C13: every POST, PUT or PATCH request handed to the transport carries one
\* Idempotency-Key: the caller's value when the caller's headers set one,
\* otherwise a token generated for that call, which no other call carries;
\* GET and DELETE requests carry no generated Idempotency-Key.
C13_IdempotencyKey ==
    /\ http.invoked > 0 =>
          LET request == http.request
          IN  /\ request.method \in {"post", "put", "patch"} =>
                    /\ HasKey(request)
                    /\ IF "Idempotency-Key" \in DOMAIN http.supplied
                       THEN KeyOf(request) = http.supplied["Idempotency-Key"]
                       ELSE /\ KeyOf(request).token > 0
                            /\ \A n \in 1..(Len(http.log) - 1) :
                                  HasKey(http.log[n]) => KeyOf(http.log[n]) # KeyOf(request)
              /\ request.method \in {"get", "delete"} =>
                    (HasKey(request) =>
                        /\ "Idempotency-Key" \in DOMAIN http.supplied
                        /\ KeyOf(request) = http.supplied["Idempotency-Key"])
              /\ request.method \in {"get", "delete", "post", "put", "patch"}
    /\ \A m, n \in DOMAIN http.log :
          (m # n /\ HasKey(http.log[m]) /\ HasKey(http.log[n])
           /\ KeyOf(http.log[m]).token > 0) => KeyOf(http.log[m]) # KeyOf(http.log[n])

C13_Witness ==
    /\ Len(http.log) = 2
    /\ http.log[1].method = "post" /\ http.log[2].method = "patch"
    /\ HasKey(http.log[1]) /\ KeyOf(http.log[1]).token = 1
    /\ HasKey(http.log[2]) /\ KeyOf(http.log[2]).token = 2


----------------------------------------------------------------------------
(* The specification of the credentials: every way of giving, or not       *)
(* giving, the access key, the team name and the API base.                 *)

OptionalStrings == {NoStr, Str(""), Str("given")}

\* The package-level settings: api_base is "https://api.superb-ai.com"
\* unless the program has assigned it (__init__.py line 3).
Configs ==
    [access_key : OptionalStrings, team_name : OptionalStrings,
     api_base : {NoStr, Str("https://api")}]

CallerArgs == [access_key : OptionalStrings, team_name : OptionalStrings]

InitCredentials == InitHttp(Configs)

CallWithCredentials ==
    ResourceCall({<<"Dataset", "fetch">>, <<"Dataset", "create">>}, {GoodParams},
                 CallerArgs, {<<>>})

NextCredentials == CallWithCredentials \/ AnswerFew

SpecCredentials == InitCredentials /\ [][NextCredentials]_vars

\* Neither the call nor the package gives the string.
Unresolved(name) ==
    /\ name \in DOMAIN http.args => http.args[name].isNone
    /\ http.config[name].isNone

\* C14: if the access key, the team name or the API base cannot be resolved
\* from the call arguments or the package-level configuration, the request
\* raises AuthenticationError before the transport is invoked; no request is
\* sent with one of them missing.
C14_CredentialsResolved ==
    /\ (http.calls > 0
        /\ (Unresolved("access_key") \/ Unresolved("team_name") \/ Unresolved("api_base"))) =>
          /\ http.pc = "raised" /\ http.exc = "AuthenticationError"
          /\ http.invoked = 0
    /\ \A n \in DOMAIN http.log :
          /\ ~http.log[n].base.isNone
          /\ "X-Api-Key" \in DOMAIN http.log[n].headers
          /\ "X-Tenant-Id" \in DOMAIN http.log[n].headers


----------------------------------------------------------------------------
(* Materialization: util.convert_to_superb_ai_object and the objects it    *)
(* builds (util.py 68-99, superb_ai_object.py 123-228).                    *)
(*                                                                         *)
(* A Python value is a record: kind is "scalar" (a string, a number, None),*)
(* "list", "dict" (a plain mapping), "obj" (a SuperbAIObject of class cls) *)
(* or "response" (a SuperbAIResponse); items are the members in order, each*)
(* with its key (the key of a list member is "").                          *)

NoCls == ""

Entry(k, v) == [k |-> k, v |-> v]

Scalar(s) == [kind |-> "scalar", cls |-> NoCls, s |-> s, items |-> <<>>]

\* Python's None.
NoneValue == Scalar("None")

NoValue == Scalar("")

List(values) ==
    [kind |-> "list", cls |-> NoCls, s |-> "",
     items |-> [i \in DOMAIN values |-> Entry("", values[i])]]

Map(entries) == [kind |-> "dict", cls |-> NoCls, s |-> "", items |-> entries]

Typed(cls, entries) == [kind |-> "obj", cls |-> cls, s |-> "", items |-> entries]

\* SuperbAIResponse.data (superb_ai_response.py): the decoded body.
Response(data) ==
    [kind |-> "response", cls |-> NoCls, s |-> "", items |-> <<Entry("", data)>>]

\* isinstance(data, dict) and not isinstance(data, SuperbAIObject), util.py
\* line 84: a SuperbAIObject is a dict, and is left out.
IsAnyMapping(data) == data.kind \in {"dict", "obj"}

IsPlainMapping(data) == data.kind = "dict"

HasKeyIn(data, key) == \E i \in DOMAIN data.items : data.items[i].k = key

\* data.get(key, default) of a mapping.
Get(data, key, default) ==
    IF HasKeyIn(data, key)
    THEN data.items[CHOOSE i \in DOMAIN data.items : data.items[i].k = key].v
    ELSE default

\* OBJECT_MAPPING (object_mapping.py 3-9): the class registered for an
\* _object_type tag, NoCls for a tag that is not registered.
OBJECT_MAPPING(tag) ==
    CASE tag = "annotation" -> "Annotation"
      [] tag = "dataset" -> "Dataset"
      [] tag = "image" -> "Image"
      [] tag = "job" -> "Job"
      [] tag = "slice" -> "Slice"
      [] OTHER -> NoCls

\* The hint is taken first and the registry only without a hint.
HintFirst(data, cls) ==
    IF cls # NoCls THEN cls
    ELSE IF OBJECT_MAPPING(Get(data, "_object_type", Scalar("")).s) # NoCls
         THEN OBJECT_MAPPING(Get(data, "_object_type", Scalar("")).s)
         ELSE "SuperbAIObject"

\* util.py 87-92: cls defaults to SuperbAIObject, and then
\* get_object_mapping().get(data.get("_object_type", ""), cls).
ClassOf(data, cls) ==
    LET default == IF cls = NoCls THEN "SuperbAIObject" ELSE cls
        found == OBJECT_MAPPING(Get(data, "_object_type", Scalar("")).s)
    IN  IF found # NoCls THEN found ELSE default

\* _field_class_map of a class: the class of the values of a field, NoCls
\* for a field without one (superb_ai_object.py line 21: none by default;
\* annotation_types.py 158, 203, 494, 549, 594, 644, 773, where the fields
\* mapped to None are as good as absent).
field_class_map(cls, k) ==
    CASE cls = "Contour" /\ k = "points" -> "Point"
      [] cls = "Face" /\ k = "contours" -> "Contour"
      [] cls = "Keypoints" /\ k = "points" -> "Keypoint"
      [] cls = "Keypoints" /\ k = "edges" -> "Edge"
      [] cls = "Path" /\ k = "points" -> "Point"
      [] cls = "Polygon" /\ k = "faces" -> "Face"
      [] cls = "Polyline" /\ k = "paths" -> "Path"
      [] cls = "Cuboid2D" /\ k \in {"near", "far"} -> "BoundingBox"
      [] OTHER -> NoCls

RECURSIVE convert_to_superb_ai_object(_, _)
RECURSIVE construct_from_dict(_, _)

\* util.convert_to_superb_ai_object (util.py 68-99).
convert_to_superb_ai_object(value, cls) ==
    LET data == IF value.kind = "response" THEN value.items[1].v ELSE value
    IN  CASE data.kind = "list" ->
               List([i \in DOMAIN data.items |->
                        convert_to_superb_ai_object(data.items[i].v, cls)])
          [] data.kind # "list" /\ IsPlainMapping(data) ->
               construct_from_dict(ClassOf(data, cls), data)
          [] OTHER -> data

\* SuperbAIObject.construct_from_dict and load_from_dict (superb_ai_object.py
\* 123-142, 164-190) of a class without constructor checks, field
\* initializers and discriminators (Dataset, Job, Slice, SuperbAIObject):
\* the object holds the keys of data in their order, each value converted
\* with the class of its field.
construct_from_dict(cls, data) ==
    Typed(cls, [i \in DOMAIN data.items |->
                   Entry(data.items[i].k,
                         convert_to_superb_ai_object(
                             data.items[i].v,
                             field_class_map(cls, data.items[i].k)))])

\* self[key] of an object that has the key.
Item(self, key) == Get(self, key, NoneValue)

RECURSIVE raw(_)

\* The raw property of the geometry classes (annotation_types.py 153, 198,
\* 243, 360, 484, 541, 589, 636, 686; to_dict for every other class).
raw(self) ==
    LET RawOf(field) ==
            List([i \in DOMAIN Item(self, field).items |->
                     raw(Item(self, field).items[i].v)])
    IN  CASE self.cls \in {"Point", "Edge"} ->
               Map(<<Entry("x", Item(self, "x")), Entry("y", Item(self, "y"))>>)
          [] self.cls = "KeypointState" ->
               Map(<<Entry("visible", Item(self, "visible")),
                     Entry("valid", Item(self, "valid"))>>)
          [] self.cls \in {"Contour", "Path"} -> RawOf("points")
          [] self.cls = "Face" -> RawOf("contours")
          [] self.cls = "Keypoints" ->
               Map(<<Entry("edges", RawOf("edges")), Entry("points", RawOf("points"))>>)
          [] self.cls = "Polygon" -> Map(<<Entry("points", RawOf("faces"))>>)
          [] self.cls = "Polyline" -> Map(<<Entry("points", RawOf("paths"))>>)
          [] OTHER -> Map(self.items)

\* to_dict: dict(self) (superb_ai_object.py 200-201), the raw form for
\* Polygon and Polyline (annotation_types.py 639-640, 689-690).
to_dict(self) ==
    IF self.cls \in {"Polygon", "Polyline"} THEN raw(self) ELSE Map(self.items)

RECURSIVE to_dict_deep(_)

\* obj_to_dict inside SuperbAIObject.to_dict_deep (superb_ai_object.py
\* 204-210).
obj_to_dict(val) == IF val.kind = "obj" THEN to_dict_deep(val) ELSE val

\* process_item (superb_ai_object.py 212-217): the members of a list are
\* converted, a list inside the list is a member like any other.
process_item(val) ==
    IF val.kind = "list"
    THEN List([i \in DOMAIN val.items |-> obj_to_dict(val.items[i].v)])
    ELSE obj_to_dict(val)

\* SuperbAIObject.to_dict_deep (superb_ai_object.py 203-228).
to_dict_deep(self) ==
    LET self_dict == to_dict(self)
    IN  IF self_dict.kind = "list"
        THEN List([i \in DOMAIN self_dict.items |-> obj_to_dict(self_dict.items[i].v)])
        ELSE Map([i \in DOMAIN self_dict.items |->
                     Entry(self_dict.items[i].k, process_item(self_dict.items[i].v))])

\* The values under materialization.
MaxDepth == 2

ObjectTypes == {"dataset", "slice", "unregistered"}

Leaves ==
    {Scalar("a"), NoneValue, List(<<>>), Map(<<>>)}
    \cup {Map(<<Entry("_object_type", Scalar(t))>>) : t \in ObjectTypes}

\* A mapping with or without an _object_type and with one more field.
MappingsOf(values) ==
    {Map(<<Entry("f", v)>>) : v \in values}
    \cup {Map(<<Entry("_object_type", Scalar(t)), Entry("f", v)>>) :
             t \in ObjectTypes, v \in values}

RECURSIVE RawValues(_)

RawValues(depth) ==
    IF depth = 0 THEN Leaves
    ELSE LET inner == RawValues(depth - 1)
         IN  inner \cup {List(<<v>>) : v \in inner}
                   \cup {List(<<v, w>>) : v, w \in Leaves}
                   \cup {List(<<List(<<v>>)>>) : v \in Leaves}
                   \cup MappingsOf(inner)

Hints == {NoCls, "Dataset", "Slice"}

IdleObj ==
    [pc |-> "idle", data |-> NoValue, cls |-> NoCls, result |-> NoValue,
     again_cls |-> NoCls, again |-> NoValue, flat |-> NoValue]

InitMaterialize ==
    /\ default_timeout = PackageTimeout
    /\ job = NoJob
    /\ wait = NoWait
    /\ tasks = <<>>
    /\ NoBulkCall
    /\ http = NoHttp
    /\ client = NoClient
    /\ obj = IdleObj

\* A caller converts a value, with or without a class.
Materialize ==
    /\ obj.pc = "idle"
    /\ \E data \in RawValues(MaxDepth), cls \in Hints :
          obj' = [obj EXCEPT !.pc = "converted", !.data = data, !.cls = cls,
                             !.result = convert_to_superb_ai_object(data, cls)]
    /\ UNCHANGED <<waitVars, tasks, bulkVars, http, client>>

\* A SuperbAIResponse is converted: its data is (util.py 75-76).
MaterializeResponse ==
    /\ obj.pc = "idle"
    /\ \E data \in Leaves, cls \in Hints :
          obj' = [obj EXCEPT !.pc = "converted", !.data = Response(data), !.cls = cls,
                             !.result = convert_to_superb_ai_object(Response(data), cls)]
    /\ UNCHANGED <<waitVars, tasks, bulkVars, http, client>>

\* The result is converted once more, as when an object that embeds typed
\* children is loaded again.
Rematerialize ==
    /\ obj.pc = "converted"
    /\ \E cls \in Hints :
          obj' = [obj EXCEPT !.pc = "again", !.again_cls = cls,
                             !.again = convert_to_superb_ai_object(obj.result, cls)]
    /\ UNCHANGED <<waitVars, tasks, bulkVars, http, client>>

\* to_dict_deep of the object that was built.
Flatten ==
    /\ obj.pc = "converted"
    /\ obj.result.kind = "obj"
    /\ obj' = [obj EXCEPT !.pc = "flat", !.flat = to_dict_deep(obj.result)]
    /\ UNCHANGED <<waitVars, tasks, bulkVars, http, client>>

NextMaterialize == Materialize \/ MaterializeResponse \/ Rematerialize \/ Flatten

SpecMaterialize == InitMaterialize /\ [][NextMaterialize]_vars

----------------------------------------------------------------------------
(* Properties of materialization. *)

\* The _object_type of the mapping given, "" without one.
TagOfData == Get(obj.data, "_object_type", Scalar("")).s

C16_Idempotent ==
    /\ obj.pc = "again" => obj.again = obj.result
    /\ (obj.pc # "idle" /\ obj.data.kind = "scalar") => obj.result = obj.data

\* A generic object holding a typed child was converted again with the
\* class Dataset.
C16_Witness ==
    /\ obj.pc = "again"
    /\ obj.result.kind = "obj" /\ obj.result.cls = "SuperbAIObject"
    /\ \E i \in DOMAIN obj.result.items : obj.result.items[i].v.kind = "obj"
    /\ obj.again_cls = "Dataset"
    /\ obj.again = obj.result


RECURSIVE HasTyped(_)

\* A SuperbAIObject is the value or is somewhere inside it.
HasTyped(val) ==
    \/ val.kind = "obj"
    \/ \E i \in DOMAIN val.items : HasTyped(val.items[i].v)

\* C18: whatever the nesting of the values of a typed object (typed objects
\* inside lists, lists inside lists, typed objects inside typed objects),
\* the result of to_dict_deep holds no typed object at any depth, only
\* scalars, lists and plain mappings.
C18_NoTypedObjectLeft == obj.pc = "flat" => ~HasTyped(obj.flat)


----------------------------------------------------------------------------
(* The geometry of an annotation: the AnnotationType classes built from    *)
(* their raw form (annotation_types.py), and the Annotation that holds one *)
(* (curate.py 38-202).                                                     *)

\* dict.update of one key: the value of a key already there is replaced in
\* place, a new key is added at the end.
Put(entries, k, v) ==
    IF \E i \in DOMAIN entries : entries[i].k = k
    THEN [i \in DOMAIN entries |-> IF entries[i].k = k THEN Entry(k, v) ELSE entries[i]]
    ELSE Append(entries, Entry(k, v))

\* dict.update with the entries new, whose keys differ from each other.
PutAll(entries, new) ==
    [i \in DOMAIN entries |->
        IF \E j \in DOMAIN new : new[j].k = entries[i].k
        THEN new[CHOOSE j \in DOMAIN new : new[j].k = entries[i].k]
        ELSE entries[i]]
    \o SelectSeq(new, LAMBDA e : \A i \in DOMAIN entries : entries[i].k # e.k)

\* del self[k]
Remove(entries, key) == SelectSeq(entries, LAMBDA e : e.k # key)

\* The keyword arguments of the constructor of a geometry class, which all
\* default to None (annotation_types.py 113-118, 162-167, 207-212, 250-258,
\* 316-323, 375-384, 442-449, 497-504, 552-558, 598-604, 648-654, 696-707,
\* 776-783, 834-840).
native_args(cls) ==
    CASE cls \in {"Point", "Edge"} -> <<"x", "y">>
      [] cls \in {"Contour", "Path"} -> <<"points">>
      [] cls = "Face" -> <<"contours">>
      [] cls = "BoundingBox" -> <<"x", "y", "width", "height">>
      [] cls = "KeypointState" -> <<"visible", "valid">>
      [] cls = "Keypoint" -> <<"name", "x", "y", "state">>
      [] cls = "Keypoints" -> <<"points", "edges">>
      [] cls = "Polygon" -> <<"faces">>
      [] cls = "Polyline" -> <<"paths">>
      [] cls = "RotatedBox" -> <<"cx", "cy", "width", "height", "angle">>
      [] cls = "Cuboid2D" -> <<"near", "far">>
      [] cls = "Category" -> <<"value">>
      [] OTHER -> <<>>

\* _raw_data_field_map (annotation_types.py 14, 595, 645): the key of the
\* raw form and the field it is loaded into.
raw_data_field_map(cls) ==
    CASE cls = "Polygon" -> <<[from |-> "points", to |-> "faces"]>>
      [] cls = "Polyline" -> <<[from |-> "points", to |-> "paths"]>>
      [] OTHER -> <<>>

\* _raw_data_child_cls (annotation_types.py 13, 159, 204, 550): the field
\* and the class of the members of a raw form that is a list.
raw_data_child_cls(cls) ==
    CASE cls \in {"Contour", "Path"} -> [key |-> "points", cls |-> "Point"]
      [] cls = "Face" -> [key |-> "contours", cls |-> "Contour"]
      [] OTHER -> [key |-> "", cls |-> NoCls]

\* _object_type of a geometry class (annotation_types.py 248, 495, 596,
\* 646, 694, 774, 832).
object_type(cls) ==
    CASE cls = "BoundingBox" -> "box"
      [] cls = "Keypoints" -> "keypoint"
      [] cls = "Polygon" -> "polygon"
      [] cls = "Polyline" -> "polyline"
      [] cls = "RotatedBox" -> "rbox"
      [] cls = "Cuboid2D" -> "cuboid2d"
      [] cls = "Category" -> "category"
      [] OTHER -> ""

GeometryClasses ==
    {"Point", "Contour", "Face", "BoundingBox", "KeypointState", "Keypoint", "Edge",
     "Keypoints", "Path", "Polygon", "Polyline", "RotatedBox", "Cuboid2D", "Category"}

\* isinstance(value, AnnotationType)
IsAnnotationType(value) == value.kind = "obj" /\ value.cls \in GeometryClasses

RECURSIVE from_raw_data(_, _)

\* cls(raw_data=data) of a geometry class, for raw data that is not None and
\* has the shape of the class (AnnotationType.__init__ and
\* load_from_raw_data, annotation_types.py 17-84): the constructor's
\* arguments, all None, are updated with the fields of the raw form, each
\* built as the class of its field, and loaded; raw_data is deleted.
from_raw_data(cls, data) ==
    LET native == native_args(cls)
        params == [i \in DOMAIN native |-> Entry(native[i], NoneValue)]
                     \o <<Entry("raw_data", data)>>
        fields == IF raw_data_field_map(cls) # <<>>
                  THEN <<Entry(raw_data_field_map(cls)[1].to,
                               Item(data, raw_data_field_map(cls)[1].from))>>
                  ELSE data.items
        BuiltField(k, item_data) ==
            IF field_class_map(cls, k) = NoCls THEN item_data
            ELSE IF item_data.kind = "list"
                 THEN List([j \in DOMAIN item_data.items |->
                               from_raw_data(field_class_map(cls, k), item_data.items[j].v)])
                 ELSE from_raw_data(field_class_map(cls, k), item_data)
        child == raw_data_child_cls(cls)
        LoadedAs(prepared_data) ==
            LET self == construct_from_dict(cls, Map(prepared_data))
            IN  [self EXCEPT !.items = Remove(self.items, "raw_data")]
    IN  CASE data.kind \in {"dict", "obj"} ->
               LoadedAs(PutAll(params, [i \in DOMAIN fields |->
                                         Entry(fields[i].k, BuiltField(fields[i].k, fields[i].v))]))
          [] data.kind = "list" /\ child.cls # NoCls ->
               LoadedAs(Put(params, child.key,
                          List([j \in DOMAIN data.items |->
                                   from_raw_data(child.cls, data.items[j].v)])))
          [] OTHER -> Typed(cls, [i \in DOMAIN native |-> Entry(native[i], NoneValue)])

\* Annotation._discriminator_map (curate.py 39-52): the class of
\* annotation_value for a value of annotation_type, NoCls for any other.
discriminator_cls_map(discriminator_value) ==
    CASE discriminator_value = "box" -> "BoundingBox"
      [] discriminator_value = "category" -> "Category"
      [] discriminator_value = "cuboid2d" -> "Cuboid2D"
      [] discriminator_value = "keypoint" -> "Keypoints"
      [] discriminator_value = "polygon" -> "Polygon"
      [] discriminator_value = "polyline" -> "Polyline"
      [] discriminator_value = "rbox" -> "RotatedBox"
      [] OTHER -> NoCls

\* Annotation.get_cls_by_discriminator for the field annotation_value
\* (superb_ai_object.py 144-162): the class, or ValidationError when the
\* value of annotation_type in data (None, "" and no key included) has no
\* class.
get_cls_by_discriminator(data) ==
    LET discriminator_value == Get(data, "annotation_type", Scalar(""))
        field_cls == IF discriminator_value.kind = "scalar"
                     THEN discriminator_cls_map(discriminator_value.s)
                     ELSE NoCls
    IN  [exc |-> IF field_cls = NoCls THEN "ValidationError" ELSE "", cls |-> field_cls]

\* bool(val) of Python.
IsTruthy(val) ==
    IF val.kind = "scalar" THEN val.s \notin {"None", ""} ELSE val.items # <<>>

Raised(exc) == [exc |-> exc, self |-> NoValue]

Built(self) == [exc |-> "", self |-> self]

\* Python raises TypeError for a keyword-only argument without a default
\* that the call does not give (curate.py 73-88).
KeywordOnlyIsOptional(kwargs) == FALSE

MissingKeyword(kwargs) ==
    \E k \in {"annotation_class", "annotation_value", "metadata"} : ~HasKeyIn(kwargs, k)

\* data[k] for a key k of _raw_data_field_map that the raw data, or the
\* geometry object given as raw data, does not have (annotation_types.py
\* line 51) raises KeyError.
RawDataKeyError(cls, data) ==
    /\ raw_data_field_map(cls) # <<>>
    /\ data.kind \in {"dict", "obj"}
    /\ ~HasKeyIn(data, raw_data_field_map(cls)[1].from)

\* Annotation._init_annotation_value (curate.py 185-202) on self.
init_annotation_value(self, annotation_type, annotation_value) ==
    LET found == get_cls_by_discriminator(Map(<<Entry("annotation_type", annotation_type)>>))
    IN  IF found.exc # "" THEN [exc |-> found.exc, self |-> self]
        ELSE IF RawDataKeyError(found.cls, annotation_value)
             THEN [exc |-> "KeyError", self |-> self]
        ELSE Built([self EXCEPT !.items =
                       Put(self.items, "annotation_value",
                           from_raw_data(found.cls, annotation_value))])

\* Annotation(**kwargs): __init__ and, without an id, _init_volatile_fields
\* (curate.py 66-183, superb_ai_object.py 26-41).
Annotation(kwargs) ==
    IF MissingKeyword(kwargs) THEN Raised("TypeError")
    ELSE
    LET id == Get(kwargs, "id", NoneValue)
        image_id == Get(kwargs, "image_id", NoneValue)
        image_key == Get(kwargs, "image_key", NoneValue)
        annotation_class == Item(kwargs, "annotation_class")
        annotation_value == Item(kwargs, "annotation_value")
        annotation_type == IF IsAnnotationType(annotation_value)
                           THEN Scalar(object_type(annotation_value.cls))
                           ELSE Get(kwargs, "annotation_type", NoneValue)
        metadata == Item(kwargs, "metadata")
        self == Typed("Annotation",
                      <<Entry("image_id", convert_to_superb_ai_object(image_id, NoCls)),
                        Entry("image_key", convert_to_superb_ai_object(image_key, NoCls)),
                        Entry("annotation_class",
                              convert_to_superb_ai_object(annotation_class, NoCls)),
                        Entry("annotation_type",
                              convert_to_superb_ai_object(annotation_type, NoCls)),
                        Entry("annotation_value",
                              convert_to_superb_ai_object(annotation_value, NoCls)),
                        Entry("metadata", convert_to_superb_ai_object(metadata, NoCls))>>)
    IN  IF IsTruthy(id) THEN Built(Typed("Annotation", <<Entry("id", id)>>))
        ELSE IF image_id = NoneValue /\ image_key = NoneValue
             THEN Raised("ValidationError")
        ELSE IF NoneValue \in {annotation_class, annotation_type, annotation_value, metadata}
             THEN Raised("ValidationError")
        ELSE IF ~IsTruthy(annotation_type) THEN Raised("ValidationError")
        ELSE IF annotation_value.kind \in {"dict", "list", "obj"}
                /\ ~IsAnnotationType(annotation_value)
             THEN LET done == init_annotation_value(self, annotation_type, annotation_value)
                  IN  IF done.exc # "" THEN Raised(done.exc) ELSE done
        ELSE Built(self)

\* The keys the object had stay.
NotCleared(items) == items

\* self.clear() (superb_ai_object.py line 174).
Cleared(items) == <<>>

\* What the field initializer of annotation_value raises when
\* load_from_dict calls it with the keys of data as keyword arguments
\* (superb_ai_object.py line 180, curate.py 185-202): TypeError without
\* annotation_type among them, or what _init_annotation_value raises.
InitializerRaises(data) ==
    IF ~HasKeyIn(data, "annotation_value") THEN ""
    ELSE IF ~HasKeyIn(data, "annotation_type") THEN "TypeError"
    ELSE init_annotation_value(Typed("Annotation", <<>>), Item(data, "annotation_type"),
                               Item(data, "annotation_value")).exc

\* Annotation.load_from_dict(data=data) (superb_ai_object.py 164-190) on
\* self; data is a plain mapping or an object. The object is cleared and
\* the keys of data are loaded in their order: annotation_value by its
\* field initializer, every other value converted. An exception leaves the
\* keys loaded before it.
Annotation_load_from_dict(self, data) ==
    LET exc == InitializerRaises(data)
        last == IF exc = "" THEN Len(data.items)
                ELSE (CHOOSE i \in DOMAIN data.items :
                         data.items[i].k = "annotation_value") - 1
        found == get_cls_by_discriminator(data)
        new == [i \in 1..last |->
                   Entry(data.items[i].k,
                         IF data.items[i].k = "annotation_value"
                         THEN from_raw_data(found.cls, data.items[i].v)
                         ELSE convert_to_superb_ai_object(data.items[i].v, NoCls))]
    IN  [exc |-> exc, self |-> [self EXCEPT !.items = PutAll(Cleared(self.items), new)]]

\* Annotation.construct_from_dict(data=data) (superb_ai_object.py 123-142):
\* the constructor with the keys of data and its id, then load_from_dict.
Annotation_construct_from_dict(data) ==
    LET entity == Annotation(Map(Put(data.items, "id", Get(data, "id", NoneValue))))
        loaded == Annotation_load_from_dict(entity.self, data)
    IN  IF entity.exc # "" THEN Raised(entity.exc)
        ELSE IF loaded.exc # "" THEN Raised(loaded.exc)
        ELSE loaded


----------------------------------------------------------------------------
(* The specification of annotations: a caller constructs an Annotation     *)
(* from keyword arguments, or one is built from a payload and flattened.   *)

Number == Scalar("1")

\* Raw forms of the geometry classes, complete and with a sub-field left
\* out (the raw forms of the docstrings, annotation_types.py 120-124,
\* 260-272, 505-515, 605-612, 655-662).
PointRaws ==
    {Map(<<Entry("x", Number), Entry("y", Number)>>), Map(<<Entry("x", Number)>>)}

BoxRaw ==
    Map(<<Entry("x", Number), Entry("y", Number), Entry("width", Number),
          Entry("height", Number)>>)

BoxRaws ==
    {BoxRaw, Map(<<Entry("x", Number), Entry("y", Number), Entry("width", Number)>>)}

RotatedBoxRaws ==
    {Map(<<Entry("cx", Number), Entry("cy", Number), Entry("width", Number),
           Entry("height", Number), Entry("angle", Number)>>),
     Map(<<Entry("cx", Number), Entry("cy", Number), Entry("width", Number),
           Entry("height", Number)>>)}

Cuboid2DRaws ==
    {Map(<<Entry("near", BoxRaw), Entry("far", BoxRaw)>>), Map(<<Entry("near", BoxRaw)>>)}

CategoryRaws == {Map(<<Entry("value", Scalar("cat"))>>), Map(<<>>)}

KeypointRaws ==
    {Map(<<Entry("x", Number), Entry("y", Number),
           Entry("state", Map(<<Entry("visible", Scalar("True")),
                                Entry("valid", Scalar("True"))>>)),
           Entry("name", Scalar("nose"))>>),
     Map(<<Entry("state", Map(<<Entry("visible", Scalar("False")),
                                Entry("valid", Scalar("False"))>>)),
           Entry("name", Scalar("nose"))>>)}

EdgeRaw == Map(<<Entry("x", Scalar("0")), Entry("y", Scalar("1"))>>)

KeypointsRaws ==
    {Map(<<Entry("points", List(<<p>>)), Entry("edges", List(<<EdgeRaw>>))>>) :
        p \in KeypointRaws}
    \cup {Map(<<Entry("points", List(<<p>>))>>) : p \in KeypointRaws}

PolygonRaws == {Map(<<Entry("points", List(<<List(<<List(<<p>>)>>)>>))>>) : p \in PointRaws}

PolylineRaws == {Map(<<Entry("points", List(<<List(<<p>>)>>))>>) : p \in PointRaws}

\* An annotation_type and a raw annotation_value of its shape.
Geometries ==
    ({"box"} \X BoxRaws) \cup ({"rbox"} \X RotatedBoxRaws)
    \cup ({"cuboid2d"} \X Cuboid2DRaws) \cup ({"category"} \X CategoryRaws)
    \cup ({"keypoint"} \X KeypointsRaws) \cup ({"polygon"} \X PolygonRaws)
    \cup ({"polyline"} \X PolylineRaws)

\* The key with one of the values, or no key.
Optional(k, values) == {<<>>} \cup {<<Entry(k, v)>> : v \in values}

\* annotation_type and annotation_value of a payload: a geometry, a value of
\* annotation_type that is not registered, or a key that is missing.
TypeAndValue ==
    {<<Entry("annotation_type", Scalar(g[1])), Entry("annotation_value", g[2])>> :
        g \in Geometries}
    \cup {t \o <<Entry("annotation_value", BoxRaw)>> :
             t \in Optional("annotation_type",
                            {NoneValue, Scalar(""), Scalar("unregistered")})}
    \cup {<<Entry("annotation_type", Scalar("box"))>>}

\* The payloads of an annotation, with an id as the service sends them and
\* without.
Payloads ==
    {Map(id \o <<Entry("image_id", Scalar("i1"))>> \o cl \o tv \o md) :
        id \in Optional("id", {Scalar("a1")}),
        cl \in Optional("annotation_class", {Scalar("person")}),
        tv \in TypeAndValue,
        md \in Optional("metadata", {Map(<<Entry("m", Scalar("v"))>>)})}

\* The keyword arguments of a caller who constructs an Annotation: each
\* field given, given as None, or left out.
Kwargs ==
    {Map(i \o k \o cl \o ty \o va \o md) :
        i \in Optional("image_id", {NoneValue, Scalar("i1")}),
        k \in Optional("image_key", {NoneValue, Scalar("k1")}),
        cl \in Optional("annotation_class", {NoneValue, Scalar("person")}),
        ty \in Optional("annotation_type",
                        {NoneValue, Scalar(""), Scalar("box"), Scalar("unregistered")}),
        va \in Optional("annotation_value",
                        {NoneValue, from_raw_data("BoundingBox", BoxRaw),
                         from_raw_data("Polygon", CHOOSE r \in PolygonRaws : TRUE)}
                        \cup BoxRaws),
        md \in Optional("metadata", {NoneValue, Map(<<>>)})}

\* result is the object the caller holds, before what it was when a refresh
\* began, and refreshed the object built from the answer to the refresh.
IdleAnnotation ==
    [pc |-> "idle", data |-> NoValue, exc |-> "", result |-> NoValue, flat |-> NoValue,
     before |-> NoValue, answer |-> NoValue, refreshed |-> NoValue]

InitAnnotation ==
    /\ default_timeout = PackageTimeout
    /\ job = NoJob
    /\ wait = NoWait
    /\ tasks = <<>>
    /\ NoBulkCall
    /\ http = NoHttp
    /\ client = NoClient
    /\ obj = IdleAnnotation

\* Annotation(**kwargs)
ConstructAnnotation ==
    /\ obj.pc = "idle"
    /\ \E kwargs \in Kwargs :
          obj' = [obj EXCEPT !.pc = "constructed", !.data = kwargs,
                             !.exc = Annotation(kwargs).exc,
                             !.result = Annotation(kwargs).self]
    /\ UNCHANGED <<waitVars, tasks, bulkVars, http, client>>

\* Annotation.construct_from_dict(data=data)
LoadAnnotation ==
    /\ obj.pc = "idle"
    /\ \E data \in Payloads :
          obj' = [obj EXCEPT !.pc = "loaded", !.data = data,
                             !.exc = Annotation_construct_from_dict(data).exc,
                             !.result = Annotation_construct_from_dict(data).self]
    /\ UNCHANGED <<waitVars, tasks, bulkVars, http, client>>

\* to_dict_deep of the annotation that was built.
FlattenAnnotation ==
    /\ obj.pc = "loaded"
    /\ obj.exc = ""
    /\ obj' = [obj EXCEPT !.pc = "flat", !.flat = to_dict_deep(obj.result)]
    /\ UNCHANGED <<waitVars, tasks, bulkVars, http, client>>

\* The payloads the service answers a refresh or a modify with: one of
\* each geometry and two without geometry, which differ in their keys.
Answers ==
    {Map(<<Entry("id", Scalar("a1")), Entry("annotation_class", Scalar("person")),
           Entry("annotation_type", Scalar(g[1])), Entry("annotation_value", g[2]),
           Entry("metadata", Map(<<Entry("m", Scalar("w"))>>))>>) : g \in Geometries}
    \cup {Map(<<Entry("id", Scalar("a1"))>>),
          Map(<<Entry("id", Scalar("a1")), Entry("image_key", Scalar("k1"))>>)}

\* annotation.refresh() (resource.py 64-89; modify, 323-350, loads the
\* answer the same way): the request raises, or its answer is converted
\* with the class of the object (resource.py 29-34) and the object the
\* caller holds is loaded from the object so built.
RefreshAnnotation ==
    /\ obj.pc = "loaded"
    /\ obj.exc = ""
    /\ \/ obj' = [obj EXCEPT !.pc = "refreshed", !.exc = "APIError", !.before = obj.result]
       \/ \E data \in Answers :
          \E refreshed_object \in {Annotation_construct_from_dict(data)} :
          \E loaded \in {Annotation_load_from_dict(obj.result, refreshed_object.self)} :
             obj' = [obj EXCEPT
                       !.pc = "refreshed", !.before = obj.result, !.answer = data,
                       !.refreshed = IF refreshed_object.exc # "" THEN NoValue
                                           ELSE refreshed_object.self,
                       !.exc = IF refreshed_object.exc # "" THEN refreshed_object.exc
                               ELSE loaded.exc,
                       !.result = IF refreshed_object.exc # "" THEN obj.result
                                  ELSE loaded.self]
    /\ UNCHANGED <<waitVars, tasks, bulkVars, http, client>>

NextAnnotation ==
    ConstructAnnotation \/ LoadAnnotation \/ FlattenAnnotation \/ RefreshAnnotation

SpecAnnotation == InitAnnotation /\ [][NextAnnotation]_vars


----------------------------------------------------------------------------
(* Properties of annotations. *)

RECURSIVE SameValue(_, _)

\* Equality as Python has it: lists member by member in order, mappings key
\* by key in any order.
SameValue(a, b) ==
    /\ a.kind = b.kind /\ a.cls = b.cls /\ a.s = b.s
    /\ Len(a.items) = Len(b.items)
    /\ IF a.kind = "list"
       THEN \A i \in DOMAIN a.items : SameValue(a.items[i].v, b.items[i].v)
       ELSE \A i \in DOMAIN a.items :
               /\ HasKeyIn(b, a.items[i].k)
               /\ SameValue(a.items[i].v, Item(b, a.items[i].k))

\* C17: round trip: for every raw dictionary d of an annotation, with every
\* geometry and also when the geometry leaves optional sub-fields out,
\* to_dict_deep(construct_from_dict(d)) equals d: no key is added, dropped
\* or renamed.
C17_RoundTrip == obj.pc = "flat" => SameValue(obj.flat, obj.data)


\* The payload has every key but, possibly, annotation_type.
CompletePayload ==
    /\ HasKeyIn(obj.data, "annotation_class")
    /\ HasKeyIn(obj.data, "annotation_value")
    /\ HasKeyIn(obj.data, "metadata")

\* The annotation_type of the payload, "" for None and for no key.
TypeOfPayload ==
    LET t == Get(obj.data, "annotation_type", NoneValue)
    IN  IF t = NoneValue THEN "" ELSE t.s

\* C19: a payload whose annotation_type is one of the registered tags (box,
\* polygon, polyline, cuboid2d, keypoint, rbox, category) is built with an
\* annotation_value of exactly the class registered for the tag; a payload
\* whose annotation_type is missing or not registered raises
\* ValidationError, and no other class is ever used.
C19_DiscriminatorDecides ==
    (obj.pc = "loaded" /\ CompletePayload) =>
        IF discriminator_cls_map(TypeOfPayload) # NoCls
        THEN /\ obj.exc = ""
             /\ Item(obj.result, "annotation_value").kind = "obj"
             /\ Item(obj.result, "annotation_value").cls = discriminator_cls_map(TypeOfPayload)
        ELSE obj.exc = "ValidationError"


\* The caller gave the keyword argument, and not as None.
PassedValue(k) == HasKeyIn(obj.data, k) /\ Item(obj.data, k) # NoneValue

\* The caller left out one of the keyword arguments without a default.
LeftOut == \E k \in {"annotation_class", "annotation_value", "metadata"} : ~HasKeyIn(obj.data, k)

\* The annotation_type is known: the value is a geometry object, whose type
\* is taken, or the caller gave a registered one.
TypeKnown ==
    \/ IsAnnotationType(Get(obj.data, "annotation_value", NoneValue))
    \/ /\ PassedValue("annotation_type")
       /\ discriminator_cls_map(Item(obj.data, "annotation_type").s) # NoCls

\* C20 as stated: constructing an Annotation with any one of
\* annotation_class, annotation_type, annotation_value and metadata left out
\* raises ValidationError and with all of them succeeds; leaving out both
\* image_id and image_key raises, and either of them alone is enough.
C20_OmittedIsValidationError ==
    obj.pc = "constructed" =>
        /\ (\E k \in {"annotation_class", "annotation_type", "annotation_value", "metadata"} :
               ~HasKeyIn(obj.data, k)) => obj.exc = "ValidationError"
        /\ (~HasKeyIn(obj.data, "image_id") /\ ~HasKeyIn(obj.data, "image_key")) =>
               obj.exc = "ValidationError"
        /\ (/\ \A k \in {"annotation_class", "annotation_type", "annotation_value", "metadata"} :
                  PassedValue(k)
            /\ TypeKnown
            /\ PassedValue("image_id") \/ PassedValue("image_key")) => obj.exc = ""

\* C20, amended: leaving out annotation_class, annotation_value or metadata
\* raises Python's TypeError; with these three in the call, the constructor
\* raises ValidationError when one of them is None, when neither image_id
\* nor image_key is given, or when the annotation_type is not known, and
\* succeeds otherwise. The annotation_type may be left out when the value
\* is a geometry object, whose type is taken.
C20_RequiredFields ==
    obj.pc = "constructed" =>
        /\ LeftOut => obj.exc = "TypeError"
        /\ ~LeftOut =>
              /\ obj.exc \in {"", "ValidationError"}
              /\ obj.exc = "" <=>
                    /\ PassedValue("image_id") \/ PassedValue("image_key")
                    /\ PassedValue("annotation_class") /\ PassedValue("annotation_value")
                    /\ PassedValue("metadata")
                    /\ TypeKnown
        /\ obj.exc = "" =>
              /\ obj.result.kind = "obj" /\ obj.result.cls = "Annotation"
              /\ IsAnnotationType(Item(obj.result, "annotation_value"))

\* An Annotation was constructed with image_key alone and without
\* annotation_type, from a BoundingBox object, and is a box.
C20_Witness ==
    /\ obj.pc = "constructed"
    /\ ~HasKeyIn(obj.data, "image_id") /\ PassedValue("image_key")
    /\ ~HasKeyIn(obj.data, "annotation_type")
    /\ IsAnnotationType(Item(obj.data, "annotation_value"))
    /\ obj.exc = ""
    /\ Item(obj.result, "annotation_type") = Scalar("box")


\* The annotation_value the caller gave is a raw dict or list.
RawValueGiven ==
    /\ HasKeyIn(obj.data, "annotation_value")
    /\ Item(obj.data, "annotation_value").kind \in {"dict", "list"}

\* C21: a fresh Annotation whose annotation_value is a geometry object gets
\* its annotation_type from the _object_type of the value, whatever
\* annotation_type was passed; with a raw dict or list as the value, an
\* empty or missing annotation_type raises ValidationError, and a registered
\* annotation_type gives an object of the registered geometry class whose
\* raw form equals the value given.
C21_TypeFromValue ==
    (obj.pc = "constructed" /\ ~LeftOut) =>
        /\ (IsAnnotationType(Item(obj.data, "annotation_value")) /\ obj.exc = "") =>
              Item(obj.result, "annotation_type")
                 = Scalar(object_type(Item(obj.data, "annotation_value").cls))
        /\ (RawValueGiven /\ ~PassedValue("annotation_type")) => obj.exc = "ValidationError"
        /\ (RawValueGiven /\ PassedValue("annotation_type")
            /\ Item(obj.data, "annotation_type").s = "") => obj.exc = "ValidationError"
        /\ (RawValueGiven /\ TypeKnown /\ obj.exc = "") =>
              /\ Item(obj.result, "annotation_value").kind = "obj"
              /\ Item(obj.result, "annotation_value").cls
                    = discriminator_cls_map(Item(obj.data, "annotation_type").s)
              /\ SameValue(raw(Item(obj.result, "annotation_value")),
                           Item(obj.data, "annotation_value"))


\* The keys of a mapping or an object.
KeysOf(val) == {val.items[i].k : i \in DOMAIN val.items}

\* C22: load_from_dict, as refresh and modify use it, replaces the contents
\* wholesale: when it has returned, the keys of the object are exactly the
\* keys of the data it was given, no key that only the object had before
\* survives, and the object is the one the caller held.
C22_LoadReplaces ==
    (obj.pc = "refreshed" /\ obj.refreshed # NoValue /\ obj.exc = "") =>
        /\ KeysOf(obj.result) = KeysOf(obj.refreshed)
        /\ \A k \in KeysOf(obj.before) \ KeysOf(obj.refreshed) : k \notin KeysOf(obj.result)
        /\ obj.result.kind = "obj" /\ obj.result.cls = obj.before.cls

\* An annotation with an image_id and no id was refreshed with an answer
\* that has an id and no image_id: it has lost the one and has the other.
C22_Witness ==
    /\ obj.pc = "refreshed" /\ obj.refreshed # NoValue /\ obj.exc = ""
    /\ "image_id" \in KeysOf(obj.before) \ KeysOf(obj.answer)
    /\ "id" \in KeysOf(obj.answer) \ KeysOf(obj.before)
    /\ KeysOf(obj.result) = KeysOf(obj.answer)

\* C24: refresh and modify load the object from the object built from the
\* answer, and this gives the contents of that object: typed children are
\* kept as they are, and the operation succeeds for an annotation of every
\* geometry (box, polygon, polyline, cuboid2d, keypoint, rbox, category).
C24_RefreshKeepsTyped ==
    (obj.pc = "refreshed" /\ obj.refreshed # NoValue) =>
        /\ obj.exc = ""
        /\ obj.result.items = obj.refreshed.items


\* The fixed default of an operation kind.
FixedDefault(kind) ==
    CASE kind = "fetch" -> "get"
      [] kind = "create" -> "post"
      [] kind = "modify" -> "put"
      [] kind = "delete" -> "delete"
      [] kind = "paginate" -> "get"

\* The class declares a method for the name.
Declares(cls, name) == name \in DOMAIN endpoints_method(cls)

\* C23: the HTTP method of an operation is the override the class declares
\* for it, else the fixed default of the operation kind (fetch GET, create
\* POST, modify PUT, delete DELETE, paginate GET); get_endpoint_method raises
\* ValidationError when there is neither an override nor a default, and
\* only then.
C23_MethodOverrideElseDefault ==
    /\ http.pc = "sent" =>
          http.request.method =
              IF Declares(http.cls, EndpointOf(http.op))
              THEN endpoints_method(http.cls)[EndpointOf(http.op)]
              ELSE FixedDefault(EndpointOf(http.op))
    /\ http.pc = "looked" =>
          /\ (http.exc = "ValidationError") <=>
                (~Declares(http.cls, http.op) /\ http.default = NoMethod)
          /\ http.exc \in {"none", "ValidationError"}
          /\ http.exc = "none" =>
                http.method = IF Declares(http.cls, http.op)
                              THEN endpoints_method(http.cls)[http.op] ELSE http.default

\* A lookup with a default for a name the class overrides has given the
\* override.
C23_Witness ==
    /\ http.pc = "looked" /\ http.exc = "none"
    /\ http.cls = "Image" /\ http.op = "paginate" /\ http.default = "get"
    /\ http.method = "post"


\* The wait began with a terminal job or with no time to wait.
NothingToWaitFor == wait.entry \in {"COMPLETE", "FAILED"} \/ wait.T <= 0

\* C28: wait_until_complete treats COMPLETE and FAILED as terminal: once a
\* status check has seen one of them there is no further refresh and no
\* further sleep, and when the job is terminal on entry, or the timeout is
\* zero or negative, it returns with zero refreshes and zero sleeps.
C28_TerminalStopsPolling ==
    /\ [][wait.seen_terminal =>
             /\ wait'.sleeps = wait.sleeps
             /\ wait'.refreshes = wait.refreshes]_vars
    /\ []((wait.pc \in {"returned", "raised"} /\ job.status \in {"COMPLETE", "FAILED"}
           /\ wait.exc = "none" /\ wait.T > 0) => wait.seen_terminal)
    /\ []((wait.pc # "none" /\ NothingToWaitFor) =>
             (wait.sleeps = 0 /\ wait.refreshes = 0 /\ wait.pc \in {"loop", "returned"}))
    /\ ((wait.pc = "loop" /\ NothingToWaitFor) ~> (wait.pc = "returned"))

\* A wait for a running job with a negative timeout has returned.
C28_Witness ==
    /\ wait.pc = "returned"
    /\ wait.entry = "RUNNING" /\ wait.T < 0
    /\ wait.sleeps = 0 /\ wait.refreshes = 0


\* A status that is neither 200 nor one of the retryable statuses.
IsRefusal(o) == o.kind = "status" /\ o.status \notin {200, 500, 502, 503, 504}

\* C30: an asset upload answered with a status that is neither 200 nor one
\* of 500, 502, 503, 504 fails at once with a SuperbAIError that is not a
\* RetryableError: that PUT is the last one, and no backoff sleep follows
\* it, whatever the number of attempts already used.
C30_RefusalFailsAtOnce ==
    \A i \in DOMAIN tasks :
        LET t == tasks[i]
        IN  \A n \in DOMAIN t.history :
                IsRefusal(t.history[n]) =>
                    /\ n = Len(t.history) /\ t.puts = n
                    /\ t.pc = "raised"
                    /\ t.exc = "SuperbAIError" /\ t.exc # "RetryableError"
                    /\ t.sleep = 0
                    /\ Len(t.slept) = n - 1
                    /\ t.attempt = n - 1

\* An upload refused with 404 on its second attempt, after one retried
\* failure and one backoff sleep.
C30_Witness ==
    \E i \in DOMAIN tasks :
        /\ tasks[i].history = <<Answer(503), Answer(404)>>
        /\ tasks[i].pc = "raised" /\ tasks[i].exc = "SuperbAIError"
        /\ tasks[i].slept = <<1>>


----------------------------------------------------------------------------
(* Properties of the upload stage of Image.create_bulk. *)

\* The upload of the image's bytes has completed successfully.
Uploaded(im) == tasks[im].pc = "returned"

\* C25: at every moment of a batch upload a source object carries an
\* asset_id only if the upload of its bytes has completed successfully; an
\* asset whose upload failed or has not finished has none.
C25_AssetIdOnlyAfterUpload ==
    \A im \in 1..Len(images) : images[im].asset_id # 0 => Uploaded(im)

\* C26: once the bulk upload of an image list has returned, no image source
\* of the list still holds its bytes in memory, whether the asset was given
\* as an in-memory buffer or as a file path.
C26_BytesReleased ==
    (bulk.op = "Image.create_bulk" /\ (up.pc = "returned" \/ bulk.pc = "returned")) =>
        \A im \in 1..Len(images) : ~images[im].held

\* C29: when the upload stage returns normally, every image of its list has
\* an asset identifier on its source and has been uploaded, whatever number
\* of targets the service returned for each request; so the parameter blob
\* of an image-import job never lists a local image without an asset_id.
C29_EveryImageHasAssetId ==
    /\ up.pc = "returned" =>
          \A im \in 1..Len(images) : images[im].asset_id # 0 /\ Uploaded(im)
    /\ \A n \in DOMAIN net :
          net[n].kind = "param_put" =>
              \A im \in DOMAIN net[n].data : net[n].data[im] # 0


----------------------------------------------------------------------------
(* APIRequestor.__init__ (api_requestor.py lines 50-67) run by several     *)
(* threads: the package-level default_http_client is tested and set with   *)
(* no lock, and a thread may be switched between any two statements.       *)

\* Most threads that build requestors.
MaxThreads == 2

\* Most requestors one thread builds.
MaxRequestors == 2

Threads == 1..MaxThreads

\* spb_curate.default_http_client = None (__init__.py line 7)
NoTransport == 0

\* if spb_curate.default_http_client (line 63): None is false, a
\* RequestsClient is true.
IsSet(transport) == transport # NoTransport

\* A thread between two constructions; clients are the _client of the
\* requestors it has built, new the RequestsClient it has just made.
IdleThread == [pc |-> "idle", new |-> NoTransport, clients |-> <<>>]

\* created counts the RequestsClient instances made; the n-th is named n.
InitTransport ==
    /\ default_timeout = PackageTimeout
    /\ job = NoJob
    /\ wait = NoWait
    /\ tasks = <<>>
    /\ NoBulkCall
    /\ http = NoHttp
    /\ obj = NoObj
    /\ client = [pc |-> "threads", default_http_client |-> NoTransport, created |-> 0,
                 threads |-> [t \in Threads |-> IdleThread]]

\* The state of thread t after a step that leaves it as th.
ThreadStep(t, th) == [client EXCEPT !.threads[t] = th]

\* A thread enters __init__ and tests the package-level client (line 63).
TransportCheck ==
    /\ client.pc = "threads"
    /\ \E t \in Threads :
          /\ client.threads[t].pc = "idle"
          /\ Len(client.threads[t].clients) < MaxRequestors
          /\ client' = ThreadStep(t, [client.threads[t] EXCEPT
                                        !.pc = IF IsSet(client.default_http_client)
                                               THEN "use" ELSE "make"])
    /\ UNCHANGED <<waitVars, tasks, bulkVars, http, obj>>

\* http_client.RequestsClient() (line 66, right-hand side).
TransportMake ==
    /\ client.pc = "threads"
    /\ \E t \in Threads :
          /\ client.threads[t].pc = "make"
          /\ client' = [ThreadStep(t, [client.threads[t] EXCEPT
                                          !.pc = "store", !.new = client.created + 1])
                           EXCEPT !.created = @ + 1]
    /\ UNCHANGED <<waitVars, tasks, bulkVars, http, obj>>

\* spb_curate.default_http_client = ... (line 66, the assignment).
TransportStore ==
    /\ client.pc = "threads"
    /\ \E t \in Threads :
          /\ client.threads[t].pc = "store"
          /\ client' = [ThreadStep(t, [client.threads[t] EXCEPT
                                          !.pc = "use", !.new = NoTransport])
                           EXCEPT !.default_http_client = client.threads[t].new]
    /\ UNCHANGED <<waitVars, tasks, bulkVars, http, obj>>

\* self._client = spb_curate.default_http_client (lines 64 and 67): the
\* package-level client as it is now.
TransportUse ==
    /\ client.pc = "threads"
    /\ \E t \in Threads :
          /\ client.threads[t].pc = "use"
          /\ client' = ThreadStep(t, [client.threads[t] EXCEPT
                                         !.pc = "idle",
                                         !.clients = Append(@, client.default_http_client)])
    /\ UNCHANGED <<waitVars, tasks, bulkVars, http, obj>>

NextTransport == TransportCheck \/ TransportMake \/ TransportStore \/ TransportUse

SpecTransport == InitTransport /\ [][NextTransport]_vars

\* The _client of every requestor built so far.
ClientsInUse ==
    UNION {{client.threads[t].clients[n] : n \in DOMAIN client.threads[t].clients} :
              t \in Threads}

\* C27: the transport is created lazily on first use and shared
\* process-wide: after any number of APIRequestor constructions, sequential
\* or concurrent from several threads, exactly one transport instance has
\* been created and every requestor uses that same instance.
C27_OneSharedTransport ==
    /\ client.created <= 1
    /\ ClientsInUse # {} =>
          /\ client.created = 1
          /\ ClientsInUse = {client.default_http_client}

=============================================================================
